---------------------------- MODULE Spec2Model ----------------------------
(***************************************************************************)
(* Verification model of the OOH planner's allocation engine:              *)
(*   services/budget-optimizer.js      (scoring, ranking, greedy walk)      *)
(*   services/recommendation-service.js (filter, ideal plan, grouping)      *)
(*   server.js                          (the two HTTP routes in front)      *)
(*                                                                         *)
(* Numbers.  A JavaScript Number is an IEEE-754 binary float: every +, -   *)
(* and * rounds its exact result to the nearest value with a fixed number  *)
(* of significand bits (ties to even).  The model keeps that behaviour     *)
(* with a significand of Prec bits over integers (operator Fl).  Quotients *)
(* that are only compared or reported (the ROI score, eficiencia,          *)
(* avgUnitCost) are kept as exact fractions, with +Infinity for x/0.       *)
(***************************************************************************)
EXTENDS Integers, Sequences, FiniteSets, TLC

\* ------------------------------------------------------------------ bounds
\* significand width of the modelled Number (binary64 has 53)
Prec == 7
\* longest inventory handed to one call
MaxItems == 3
\* how many times the same call is repeated with identical arguments
MaxCalls == 2
\* the largest quantity typed into a manual adjustment field
MaxQty == 3
\* how many fields of a loaded planning table are edited
MaxEdits == 2
\* how many blocks a page lists, and how many block objects it creates
MaxBlocks == 2
MaxObjects == 2
\* how many requests the handlers of the input fields start
MaxRequests == 2
\* how many plans the users save
MaxPlans == 2

\* ------------------------------------------------- Number arithmetic (Fl)
RECURSIVE Pow2(_)
Pow2(k) == IF k <= 0 THEN 1 ELSE 2 * Pow2(k - 1)

RECURSIVE BitLen(_)
BitLen(x) == IF x <= 0 THEN 0 ELSE 1 + BitLen(x \div 2)

Abs(x) == IF x < 0 THEN -x ELSE x

\* round-to-nearest, ties-to-even, of a non-negative exact value
FlAbs(x) ==
    IF x < Pow2(Prec) THEN x
    ELSE LET k == BitLen(x) - Prec
             q == x \div Pow2(k)
             r == x % Pow2(k)
             h == Pow2(k - 1)
         IN  (IF r > h \/ (r = h /\ q % 2 = 1) THEN q + 1 ELSE q) * Pow2(k)

\* the Number that an arithmetic operation with exact result x produces
Fl(x) == IF x < 0 THEN -FlAbs(-x) ELSE FlAbs(x)

\* ------------------------------------------------------ exact fractions
RECURSIVE Gcd(_, _)
Gcd(a, b) == IF b = 0 THEN a ELSE Gcd(b, a % b)

\* n/d in lowest terms with d > 0; d = 0 stands for +Infinity
Rat(n, d) ==
    IF d = 0 THEN [n |-> 1, d |-> 0]
    ELSE LET g == Gcd(Abs(n), Abs(d))
             s == IF d < 0 THEN -1 ELSE 1
         IN  [n |-> s * (n \div g), d |-> s * (d \div g)]

\* (n/d) * (a/b), cancelling before multiplying
RatMul(x, a, b) ==
    LET g1 == Gcd(Abs(x.n), b)
        g2 == Gcd(a, x.d)
    IN  Rat((x.n \div g1) * (a \div g2), (x.d \div g2) * (b \div g1))

\* sign of x - y for finite fractions, by continued-fraction expansion
RECURSIVE RatCmp(_, _)
RatCmp(x, y) ==
    LET fx == x.n \div x.d
        fy == y.n \div y.d
        rx == x.n - fx * x.d
        ry == y.n - fy * y.d
    IN  IF fx # fy THEN (IF fx < fy THEN -1 ELSE 1)
        ELSE IF rx = 0 /\ ry = 0 THEN 0
        ELSE IF rx = 0 THEN -1
        ELSE IF ry = 0 THEN 1
        ELSE RatCmp([n |-> y.d, d |-> ry], [n |-> x.d, d |-> rx])

IsInf(x) == x.d = 0

\* ------------------------------------------------- raw field values, strings
\* A field of an inventory row is a Number, a string (a sequence of
\* one-character strings) or null/undefined.
Num(n) == [t |-> "num", v |-> n, s |-> <<>>]
Str(s) == [t |-> "str", v |-> 0, s |-> s]
Null == [t |-> "null", v |-> 0, s |-> <<>>]

Digits == {"0", "1", "2", "3", "4", "5", "6", "7", "8", "9"}

DigitVal(c) ==
    CASE c = "0" -> 0 [] c = "1" -> 1 [] c = "2" -> 2 [] c = "3" -> 3
      [] c = "4" -> 4 [] c = "5" -> 5 [] c = "6" -> 6 [] c = "7" -> 7
      [] c = "8" -> 8 [] c = "9" -> 9

\* str.replace(/\./g, '')
RECURSIVE RemoveDots(_)
RemoveDots(s) ==
    IF s = <<>> THEN <<>>
    ELSE IF Head(s) = "." THEN RemoveDots(Tail(s))
    ELSE <<Head(s)>> \o RemoveDots(Tail(s))

\* str.replace(',', '.'): the first comma only
RECURSIVE ReplaceFirstComma(_)
ReplaceFirstComma(s) ==
    IF s = <<>> THEN <<>>
    ELSE IF Head(s) = "," THEN <<".">> \o Tail(s)
    ELSE <<Head(s)>> \o ReplaceFirstComma(Tail(s))

\* length of the longest prefix of s made of digits
RECURSIVE DigitPrefixLen(_)
DigitPrefixLen(s) ==
    IF s = <<>> \/ Head(s) \notin Digits THEN 0
    ELSE 1 + DigitPrefixLen(Tail(s))

RECURSIVE DigitsValue(_, _)
DigitsValue(s, acc) ==
    IF s = <<>> THEN acc ELSE DigitsValue(Tail(s), 10 * acc + DigitVal(Head(s)))

\* the fraction digits parseFloat would read after the integer part
FractionDigits(s) ==
    LET body == IF s # <<>> /\ Head(s) = "-" THEN Tail(s) ELSE s
        k == DigitPrefixLen(body)
        rest == SubSeq(body, k + 1, Len(body))
    IN  IF rest # <<>> /\ Head(rest) = "."
        THEN SubSeq(Tail(rest), 1, DigitPrefixLen(Tail(rest)))
        ELSE <<>>

\* parseFloat(str) || 0 : sign, integer digits, optional fraction; a string
\* without a leading number gives NaN, which || turns into 0.  Numbers are
\* integers here, so the value is exact for the strings whose fraction
\* digits are all "0" (ModelledValue), the only ones the inventory draws.
parseFloatOr0(s) ==
    LET neg == s # <<>> /\ Head(s) = "-"
        body == IF neg THEN Tail(s) ELSE s
        k == DigitPrefixLen(body)
        int == DigitsValue(SubSeq(body, 1, k), 0)
    IN  IF k = 0 THEN 0 ELSE IF neg THEN -int ELSE int

\* parseNumber(value), budget-optimizer.js
parseNumber(value) ==
    IF value.t = "num" THEN value.v
    ELSE IF value.t = "null" \/ value.s = <<>> THEN 0
    ELSE parseFloatOr0(ReplaceFirstComma(RemoveDots(value.s)))

ModelledValue(value) ==
    value.t = "str" =>
        \A i \in DOMAIN FractionDigits(ReplaceFirstComma(RemoveDots(value.s))) :
            FractionDigits(ReplaceFirstComma(RemoveDots(value.s)))[i] = "0"

\* String.prototype.toLowerCase over the strings the model uses
toLowerCase(s) ==
    CASE s = "Premium" -> "premium"
      [] s = "Standard" -> "standard"
      [] s = "SAO PAULO" -> "sao paulo"
      [] s = "RIO" -> "rio"
      [] s = "Luxo" -> "luxo"
      [] s = "Painel LED" -> "painel led"
      [] s = "Relogio de Rua" -> "relogio de rua"
      [] s = "Outdoor" -> "outdoor"
      [] s = "Totem" -> "totem"
      [] OTHER -> s

\* formatLower.includes(word) over the lower-cased format names of the model
includes(lower, word) ==
    CASE lower = "painel led" -> word \in {"painel", "led"}
      [] lower = "outdoor" -> word \in {"outdoor", "door"}
      [] lower = "totem" -> word \in {"totem"}
      [] OTHER -> FALSE

\* Boolean(value)
Boolean(value) ==
    CASE value.t = "num" -> value.v # 0
      [] value.t = "str" -> value.s # <<>>
      [] OTHER -> FALSE

\* ------------------------------------------------------- inventory rows
\* pesos is a Number in hundredths (Num(90) is 0.9) or null; formato "" is
\* a missing format.  Every amount is a Number of Prec significant bits.
I1 == [ID |-> 1, taxonomia |-> "Premium", praca |-> "SAO PAULO",
       formato |-> "Painel LED", digital |-> Num(1), estatico |-> Num(0),
       unitario_bruto_negociado |-> Num(500), range_minimo |-> Num(2),
       range_maximo |-> Num(4), pesos |-> Null]
\* same score as I1 (same price and min + max), half its cost
I2 == [ID |-> 2, taxonomia |-> "Standard", praca |-> "RIO",
       formato |-> "Painel LED", digital |-> Num(1), estatico |-> Num(0),
       unitario_bruto_negociado |-> Num(500), range_minimo |-> Num(1),
       range_maximo |-> Num(5), pesos |-> Null]
\* cheap and high-scored
I3 == [ID |-> 3, taxonomia |-> "Premium", praca |-> "SAO PAULO",
       formato |-> "Relogio de Rua", digital |-> Num(0), estatico |-> Num(1),
       unitario_bruto_negociado |-> Num(15), range_minimo |-> Num(2),
       range_maximo |-> Num(2), pesos |-> Num(90)]
\* no negotiated price
I4 == [ID |-> 4, taxonomia |-> "Standard", praca |-> "RIO",
       formato |-> "Totem", digital |-> Num(0), estatico |-> Num(1),
       unitario_bruto_negociado |-> Null, range_minimo |-> Num(1),
       range_maximo |-> Num(2), pesos |-> Num(50)]
\* price held as the string "1.5", no minimum quantity
I5 == [ID |-> 5, taxonomia |-> "Premium", praca |-> "SAO PAULO",
       formato |-> "", digital |-> Num(0), estatico |-> Num(0),
       unitario_bruto_negociado |-> Str(<<"1", ".", "5">>),
       range_minimo |-> Null, range_maximo |-> Num(6), pesos |-> Num(90)]
\* negative price
I6 == [ID |-> 6, taxonomia |-> "Standard", praca |-> "RIO",
       formato |-> "Outdoor", digital |-> Num(0), estatico |-> Num(1),
       unitario_bruto_negociado |-> Num(-500), range_minimo |-> Num(2),
       range_maximo |-> Num(4), pesos |-> Null]
\* expensive: price held as the string "1.000,0"
I7 == [ID |-> 7, taxonomia |-> "Premium", praca |-> "RIO",
       formato |-> "Outdoor", digital |-> Num(0), estatico |-> Num(1),
       unitario_bruto_negociado |-> Str(<<"1", ".", "0", "0", "0", ",", "0">>),
       range_minimo |-> Num(2), range_maximo |-> Num(4), pesos |-> Num(90)]

\* same format as I3 but digital: another exposure factor under one format name
I8 == [ID |-> 8, taxonomia |-> "Premium", praca |-> "SAO PAULO",
       formato |-> "Relogio de Rua", digital |-> Num(1), estatico |-> Num(0),
       unitario_bruto_negociado |-> Num(500), range_minimo |-> Num(1),
       range_maximo |-> Num(3), pesos |-> Null]

Catalogue == {I1, I2, I3, I4, I5, I6, I7}

\* the rows behind the plans of the recommendation page
PlanCatalogue == {I1, I2, I3, I4, I8}

\* the inventories of at most n distinct rows, in every order
Inventories(n) ==
    UNION {{s \in [1..k -> Catalogue] : \A i, j \in 1..k : i # j => s[i] # s[j]} :
           k \in 0..n}

PlanInventories(n) ==
    UNION {{s \in [1..k -> PlanCatalogue] : \A i, j \in 1..k : i # j => s[i] # s[j]} :
           k \in 1..n}

\* four rows in every order: the shortest inventories of which the top 75%
\* of the ranking (three rows) leaves a row out
LongInventories ==
    {s \in [1..4 -> {I1, I2, I3, I7}] : \A i, j \in 1..4 : i # j => s[i] # s[j]}

\* ------------------------------------------------------- budget-optimizer.js
\* getFormatMultiplier(formato), in tenths
getFormatMultiplier(formato) ==
    LET formatLower == toLowerCase(formato)
    IN  IF includes(formatLower, "outdoor") THEN 13
        ELSE IF includes(formatLower, "led") \/ includes(formatLower, "painel") THEN 12
        ELSE IF includes(formatLower, "front") THEN 11
        ELSE IF includes(formatLower, "toten") THEN 10
        ELSE 10

\* getExposureFactor(formato, digital, estatico)
getExposureFactor(formato, digital, estatico) ==
    LET formatoLower == toLowerCase(formato)
        isDigital == Boolean(digital)
    IN  IF includes(formatoLower, "empena") \/ includes(formatoLower, "painel") THEN 50000
        ELSE IF includes(formatoLower, "metro") \/ includes(formatoLower, "metrô") THEN 45000
        ELSE IF includes(formatoLower, "aeroporto") THEN 40000
        ELSE IF includes(formatoLower, "shopping") THEN 35000
        ELSE IF includes(formatoLower, "parque") THEN 30000
        ELSE IF includes(formatoLower, "abrigo") \/ includes(formatoLower, "onibus")
                \/ includes(formatoLower, "ônibus")
             THEN (IF isDigital THEN 25000 ELSE 20000)
        ELSE IF includes(formatoLower, "mub") \/ includes(formatoLower, "banca") THEN 22000
        ELSE IF includes(formatoLower, "totem") THEN (IF isDigital THEN 28000 ELSE 18000)
        ELSE IF includes(formatoLower, "circuito") THEN 20000
        ELSE IF includes(formatoLower, "backbus") \/ includes(formatoLower, "back bus") THEN 18000
        ELSE IF includes(formatoLower, "backseat") \/ includes(formatoLower, "back seat") THEN 8000
        ELSE IF includes(formatoLower, "envelopamento") THEN 35000
        ELSE IF includes(formatoLower, "exterior") THEN 25000
        ELSE IF isDigital THEN 15000 ELSE 12000

\* calculateROI(face, campaignCycle):
\*   (10000/price * 0.4 + avgQuantity * campaignCycle * 0.4)
\*       * formatMultiplier * digitalBonus * peso
\* as an exact fraction; 10000/0 is +Infinity and stays so.
calculateROI(face, campaignCycle) ==
    LET price == parseNumber(face.unitario_bruto_negociado)
        sumQty == Fl(parseNumber(face.range_minimo) + parseNumber(face.range_maximo))
        formatMultiplier == getFormatMultiplier(face.formato)
        digitalBonus == IF parseNumber(face.digital) = 1 THEN 12 ELSE 10
        peso == IF face.pesos.t = "num" /\ face.pesos.v > 0 THEN face.pesos.v ELSE 50
        base == Rat(20000 + sumQty * campaignCycle * price, 2 * price)
    IN  IF price = 0 THEN Rat(1, 0)
        ELSE RatMul(RatMul(RatMul(RatMul(base, 4, 10), formatMultiplier, 10),
                           digitalBonus, 10), peso, 100)

\* compareRoi with the operands swapped (a.roi - b.roi): ascending order
compareRoiAscending(a, b) ==
    IF IsInf(a.roi) /\ IsInf(b.roi) THEN 0
    ELSE IF IsInf(a.roi) THEN 1
    ELSE IF IsInf(b.roi) THEN -1
    ELSE RatCmp(a.roi, b.roi)

\* the comparator (a, b) => b.roi - a.roi, as a sign; Infinity - Infinity is
\* NaN, which Array.prototype.sort treats as 0
compareRoi(a, b) ==
    IF IsInf(a.roi) /\ IsInf(b.roi) THEN 0
    ELSE IF IsInf(a.roi) THEN -1
    ELSE IF IsInf(b.roi) THEN 1
    ELSE RatCmp(b.roi, a.roi)

\* insertSorted for a sort that is not stable: x goes before its equals
insertSortedUnstable(sorted, x) ==
    LET k == Cardinality({i \in 1..Len(sorted) : compareRoi(sorted[i], x) < 0})
    IN  SubSeq(sorted, 1, k) \o <<x>> \o SubSeq(sorted, k + 1, Len(sorted))

\* Array.prototype.sort is stable (ES2019, node 18): x goes after every
\* element that does not compare greater than it
insertSorted(sorted, x) ==
    LET k == Cardinality({i \in 1..Len(sorted) : compareRoi(sorted[i], x) <= 0})
    IN  SubSeq(sorted, 1, k) \o <<x>> \o SubSeq(sorted, k + 1, Len(sorted))

RECURSIVE sortByRoi(_)
sortByRoi(faces) ==
    IF faces = <<>> THEN <<>>
    ELSE insertSorted(sortByRoi(SubSeq(faces, 1, Len(faces) - 1)), faces[Len(faces)])

\* prioritizeFaces(inventory, campaignCycle); pos records the row's index in
\* the inventory it came from
prioritizeFaces(inventory, campaignCycle) ==
    sortByRoi([i \in 1..Len(inventory) |->
                  [face |-> inventory[i],
                   roi |-> calculateROI(inventory[i], campaignCycle),
                   unitPrice |-> parseNumber(inventory[i].unitario_bruto_negociado),
                   pos |-> i]])

RECURSIVE sumCost(_, _)
sumCost(faces, sum) ==
    IF faces = <<>> THEN sum
    ELSE sumCost(Tail(faces),
                 Fl(sum + Fl(parseNumber(Head(faces).face.unitario_bruto_negociado)
                             * parseNumber(Head(faces).face.range_minimo))))

\* Math.floor in the place of Math.ceil
floor75(n) == (3 * n) \div 4

\* Math.ceil(n * 0.75)
ceil75(n) == (3 * n + 3) \div 4

\* calculateIdealBudget(inventory, campaignCycle)
calculateIdealBudget(inventory, campaignCycle) ==
    LET rankedFaces == prioritizeFaces(inventory, campaignCycle)
        topFaces == SubSeq(rankedFaces, 1, ceil75(Len(rankedFaces)))
    IN  sumCost(topFaces, 0)

\* Number.prototype.toFixed(2) of a score: "Infinity", or the decimal string
\* of the nearest hundredth (the larger one on a tie), held as hundredths
toFixed2(x) ==
    IF IsInf(x) THEN [inf |-> TRUE, h |-> 0]
    ELSE [inf |-> FALSE, h |-> (200 * x.n + x.d) \div (2 * x.d)]

\* "if (remainingBudget < 1000) break", allocateBudgetToFaces
StopThreshold == 1000

\* recommendation-service.js filterInventory(inventory, taxonomia, praca);
\* item.taxonomia / item.praca "" is falsy
matchesFilter(item, tax, prc) ==
    /\ \/ tax = "Tudo"
       \/ item.taxonomia # "" /\ toLowerCase(item.taxonomia) = toLowerCase(tax)
    /\ \/ prc = "Tudo"
       \/ item.praca # "" /\ toLowerCase(item.praca) = toLowerCase(prc)

RECURSIVE filterInventory(_, _, _)
filterInventory(inventory, tax, prc) ==
    IF inventory = <<>> THEN <<>>
    ELSE (IF matchesFilter(Head(inventory), tax, prc) THEN <<Head(inventory)>> ELSE <<>>)
         \o filterInventory(Tail(inventory), tax, prc)

\* ---------------------------------------------------------------- the state
VARIABLES
    entry,            \* which operation the caller invokes
    budget, campaignCycle, taxonomia, praca, inventory,   \* its arguments
    pc,               \* where the call is
    inv,              \* the inventory optimizeAllocation received
    idealBudget,      \* optimizeAllocation: const idealBudget
    rankedFaces, idx, \* allocateBudgetToFaces: the ranking and the loop position
    remainingBudget, selectedFaces, totalFacesCount,   \* its locals
    walk,             \* one record per loop iteration of the current call
    optimization,     \* getIdealPlan: const optimization
    results,          \* what the calls returned so far, in order
    block,            \* the recommendation page's block: idealPlan, manualPlan,
                      \* efficiencyMetrics, playerList, and how many
                      \* responses of fetchIdealPlan it has taken in
    planning,         \* the planning page's block: budget, planningRows
    invoked,          \* recommendation-service: which of calculateEfficiency
                      \* and generatePlayerList ran, and the status of the
                      \* ideal plan each was given
    reply,            \* what the last efficiency or player-list route answered
    page,             \* which page runs: "recommendation" or "planning"
    heap,             \* the block objects of the page, by reference
    mediaBlocks,      \* state.mediaBlocks: the references of the listed blocks
    nextBlockId,      \* state.nextBlockId
    inflight,         \* the requests of the page that have not settled
    sent,             \* how many requests the page has sent
    actor,            \* the block object the last handler was started for
    untouched,        \* the block objects reset and not typed into since
    session,          \* req.session.user.id of each client, 0 without a user
    plans,            \* auth-service: the rows of the table plans
    res               \* what the last login or plans route answered, to whom

args == <<entry, budget, campaignCycle, taxonomia, praca, inventory>>
locals == <<idealBudget, rankedFaces, idx, remainingBudget, selectedFaces,
            totalFacesCount, walk>>
client == <<block, planning>>
server == <<invoked, reply>>
browser == <<page, heap, mediaBlocks, nextBlockId, inflight, sent, actor, untouched>>
accounts == <<session, plans, res>>
vars == <<entry, budget, campaignCycle, taxonomia, praca, inventory, pc, inv,
          idealBudget, rankedFaces, idx, remainingBudget, selectedFaces,
          totalFacesCount, walk, optimization, results, block, planning,
          invoked, reply, page, heap, mediaBlocks, nextBlockId, inflight, sent,
          actor, untouched, session, plans, res>>

Entries == {"optimizeAllocation", "getIdealPlan",
            "POST /api/optimize-budget", "POST /api/get-ideal-plan"}
PlanEntries == {"getIdealPlan", "POST /api/get-ideal-plan"}

\* the budgets, cycles and filters a caller passes; 15 and 45 are below the
\* stopping threshold, and half and one and a half times the cost of I3
Budgets == {0, 15, 45, 1040, 2048, 3008}
Cycles == {0, 4}
Filters == {<<"Tudo", "Tudo">>, <<"premium", "sao paulo">>, <<"Luxo", "Tudo">>}

\* no page with blocks is open
NoBrowser ==
    /\ page = "none"
    /\ heap = <<>>
    /\ mediaBlocks = <<>>
    /\ nextBlockId = 2
    /\ inflight = {}
    /\ sent = 0
    /\ actor = 0
    /\ untouched = {}

\* the users and the clients (browsers, each with its session cookie)
Users == {1, 2}
Clients == {1, 2}

NoResponse == [route |-> "none", client |-> 0, id |-> 0, code |-> 0, plans |-> {}]

\* nobody is logged in and no plan is saved
NoAccounts ==
    /\ session = [c \in Clients |-> 0]
    /\ plans = <<>>
    /\ res = NoResponse

NoResult == [status |-> "none"]

\* a block as the pages create it: no plan loaded, no rows
NoBlock == [idealPlan |-> NoResult, manualPlan |-> NoResult,
            efficiencyMetrics |-> NoResult, playerList |-> NoResult,
            loaded |-> 0]
NoPlanning == [budget |-> 0, planningData |-> <<>>, planningRows |-> <<>>, edits |-> 0]

Init ==
    /\ entry \in Entries
    /\ budget \in Budgets
    /\ campaignCycle \in Cycles
    /\ \E f \in (IF entry \in PlanEntries THEN Filters ELSE {<<"Tudo", "Tudo">>}) :
           taxonomia = f[1] /\ praca = f[2]
    /\ inventory \in Inventories(MaxItems) \cup LongInventories
    /\ pc = "idle"
    /\ inv = <<>>
    /\ idealBudget = 0
    /\ rankedFaces = <<>>
    /\ idx = 1
    /\ remainingBudget = 0
    /\ selectedFaces = <<>>
    /\ totalFacesCount = 0
    /\ walk = <<>>
    /\ optimization = NoResult
    /\ results = <<>>
    /\ block = NoBlock
    /\ planning = NoPlanning
    /\ invoked = {}
    /\ reply = NoResult
    /\ NoBrowser
    /\ NoAccounts

\* errorResult that also carries zeroed allocation figures
errorResultWithTotals(msg) ==
    [status |-> "error", message |-> msg, allocatedBudget |-> 0,
     remainingBudget |-> 0, facesCount |-> 0]

errorResult(msg) == [status |-> "error", message |-> msg]

\* a call returns r to its caller; the caller then repeats the same call
Return(r) ==
    /\ results' = Append(results, r)
    /\ pc' = IF Len(results) + 1 < MaxCalls THEN "idle" ELSE "done"

\* ---------------------------------------------------------------- server.js
\* POST /api/optimize-budget: validation, then optimizeAllocation
RouteOptimizeBudget ==
    /\ pc = "idle" /\ entry = "POST /api/optimize-budget"
    /\ IF budget = 0 \/ budget <= 0
       THEN Return(errorResult(<<"Budget nao definido ou invalido">>)) /\ inv' = inv
       ELSE IF campaignCycle = 0 \/ campaignCycle <= 0
       THEN Return(errorResult(<<"Ciclo de campanha nao definido ou invalido">>))
            /\ inv' = inv
       ELSE pc' = "optimize" /\ inv' = inventory /\ results' = results
    /\ UNCHANGED <<args, browser, accounts, server, client, locals, optimization>>

\* POST /api/get-ideal-plan: validation, then getIdealPlan
RouteGetIdealPlan ==
    /\ pc = "idle" /\ entry = "POST /api/get-ideal-plan"
    /\ IF budget = 0 \/ budget <= 0
       THEN Return(errorResult(<<"Budget nao definido ou invalido">>))
       ELSE IF campaignCycle = 0 \/ campaignCycle <= 0
       THEN Return(errorResult(<<"Ciclo de campanha nao definido ou invalido">>))
       ELSE IF taxonomia = ""
       THEN Return(errorResult(<<"Taxonomia nao definida">>))
       ELSE IF praca = ""
       THEN Return(errorResult(<<"Praca nao definida">>))
       ELSE pc' = "getIdealPlan" /\ results' = results
    /\ UNCHANGED <<args, browser, accounts, server, client, locals, inv, optimization>>

\* the operation is called directly (module.exports)
CallOptimizeAllocation ==
    /\ pc = "idle" /\ entry = "optimizeAllocation"
    /\ pc' = "optimize"
    /\ inv' = inventory
    /\ UNCHANGED <<args, browser, accounts, server, client, locals, optimization, results>>

CallGetIdealPlan ==
    /\ pc = "idle" /\ entry = "getIdealPlan"
    /\ pc' = "getIdealPlan"
    /\ UNCHANGED <<args, browser, accounts, server, client, locals, inv, optimization, results>>

\* ------------------------------------------------ recommendation-service.js
\* getIdealPlan, up to the call of optimizeAllocation
GetIdealPlanFilter ==
    /\ pc = "getIdealPlan"
    /\ LET filteredInventory == filterInventory(inventory, taxonomia, praca)
       IN  IF Len(filteredInventory) = 0
           THEN /\ Return(errorResult(<<"Nenhum inventario disponivel para Taxonomia, Praca",
                                        taxonomia, praca>>))
                /\ inv' = inv
           ELSE /\ pc' = "optimize"
                /\ inv' = filteredInventory
                /\ results' = results
    /\ UNCHANGED <<args, browser, accounts, server, client, locals, optimization>>

\* ------------------------------------------------------- budget-optimizer.js
\* OptimizeBegin with selectedFaces and totalFacesCount kept across calls
\* (held on the exported instance instead of being locals)
OptimizeBeginKeepsSelection ==
    /\ pc = "optimize"
    /\ IF Len(inv) = 0
       THEN LET r == errorResult(<<"Nenhuma face disponivel com os filtros aplicados">>)
            IN  /\ IF entry \in PlanEntries
                   THEN optimization' = r /\ pc' = "group" /\ results' = results
                   ELSE Return(r) /\ optimization' = optimization
                /\ UNCHANGED locals
       ELSE /\ idealBudget' = calculateIdealBudget(inv, campaignCycle)
            /\ rankedFaces' = prioritizeFaces(inv, campaignCycle)
            /\ remainingBudget' = budget
            /\ idx' = 1
            /\ walk' = <<>>
            /\ pc' = "walk"
            /\ UNCHANGED <<selectedFaces, totalFacesCount, optimization, results>>
    /\ UNCHANGED <<args, browser, accounts, server, client, inv>>

\* optimizeAllocation, up to the loop of allocateBudgetToFaces: the empty-inventory
\* test, calculateIdealBudget, then prioritizeFaces and the loop's locals
OptimizeBegin ==
    /\ pc = "optimize"
    /\ IF Len(inv) = 0
       THEN LET r == errorResult(<<"Nenhuma face disponivel com os filtros aplicados">>)
            IN  /\ IF entry \in PlanEntries
                   THEN optimization' = r /\ pc' = "group" /\ results' = results
                   ELSE Return(r) /\ optimization' = optimization
                /\ UNCHANGED locals
       ELSE /\ idealBudget' = calculateIdealBudget(inv, campaignCycle)
            /\ rankedFaces' = prioritizeFaces(inv, campaignCycle)
            /\ remainingBudget' = budget
            /\ selectedFaces' = <<>>
            /\ totalFacesCount' = 0
            /\ idx' = 1
            /\ walk' = <<>>
            /\ pc' = "walk"
            /\ UNCHANGED <<optimization, results>>
    /\ UNCHANGED <<args, browser, accounts, server, client, inv>>

\* face.pesos || null
orNull(value) ==
    IF value.t = "num" /\ value.v = 0 THEN Null
    ELSE IF value.t = "str" /\ value.s = <<>> THEN Null
    ELSE value

\* the entry pushed on selectedFaces
selectedFace(ranked, minQuantity, unitPrice, faceCost, priority) ==
    [id |-> ranked.face.ID,
     praca |-> ranked.face.praca,
     formato |-> ranked.face.formato,
     taxonomia |-> ranked.face.taxonomia,
     digital |-> ranked.face.digital,
     estatico |-> ranked.face.estatico,
     pesos |-> orNull(ranked.face.pesos),
     quantity |-> minQuantity,
     unitPrice |-> unitPrice,
     totalCost |-> faceCost,
     roi |-> toFixed2(ranked.roi),
     priority |-> priority]

\* canCommit without the cost test
canCommitIgnoringCost(faceCost, remaining, minQuantity) ==
    minQuantity > 0

\* canCommit without the quantity test
canCommitZeroQuantity(faceCost, remaining, minQuantity) ==
    faceCost <= remaining

\* the test "faceCost <= remainingBudget && minQuantity > 0"
canCommit(faceCost, remaining, minQuantity) ==
    faceCost <= remaining /\ minQuantity > 0

\* one iteration of "for (const face of rankedFaces)"
WalkStep ==
    /\ pc = "walk"
    /\ LET ranked == rankedFaces[idx]
           minQuantity == parseNumber(ranked.face.range_minimo)
           unitPrice == parseNumber(ranked.face.unitario_bruto_negociado)
           faceCost == Fl(unitPrice * minQuantity)
           commit == canCommit(faceCost, remainingBudget, minQuantity)
           remaining == IF commit THEN Fl(remainingBudget - faceCost)
                        ELSE remainingBudget
       IN  /\ selectedFaces' =
                 IF commit
                 THEN Append(selectedFaces,
                             selectedFace(ranked, minQuantity, unitPrice, faceCost,
                                          Len(selectedFaces) + 1))
                 ELSE selectedFaces
           /\ remainingBudget' = remaining
           /\ totalFacesCount' = IF commit THEN Fl(totalFacesCount + minQuantity)
                                 ELSE totalFacesCount
           /\ walk' = Append(walk, [pos |-> ranked.pos, rank |-> idx,
                                    roi |-> ranked.roi, minQuantity |-> minQuantity,
                                    faceCost |-> faceCost,
                                    before |-> remainingBudget,
                                    committed |-> commit])
           /\ IF remaining < StopThreshold \/ idx = Len(rankedFaces)
              THEN pc' = "finish" /\ idx' = idx
              ELSE pc' = "walk" /\ idx' = idx + 1
    /\ UNCHANGED <<args, browser, accounts, server, client, inv, idealBudget, rankedFaces, optimization, results>>

RECURSIVE sumExposure(_, _)
sumExposure(faces, sum) ==
    IF faces = <<>> THEN sum
    ELSE sumExposure(Tail(faces),
                     Fl(sum + Fl(Head(faces).quantity
                                 * getExposureFactor(Head(faces).formato,
                                                     Head(faces).digital,
                                                     Head(faces).estatico))))

\* budgetStatus with both boundary values outside "sufficient"
budgetStatusBoundariesOut(b, ideal) ==
    IF 2 * b <= ideal THEN "insufficient"
    ELSE IF 2 * b >= Fl(3 * ideal) THEN "excessive"
    ELSE "sufficient"

\* the status test: budget < idealBudget * 0.5, budget > idealBudget * 1.5
\* (halving is exact in binary, so only the product by 3 rounds)
budgetStatus(b, ideal) ==
    IF 2 * b < ideal THEN "insufficient"
    ELSE IF 2 * b > Fl(3 * ideal) THEN "excessive"
    ELSE "sufficient"

\* the object optimizeAllocation returns after the loop
allocationResult ==
    LET allocatedBudget == Fl(budget - remainingBudget)
        status == budgetStatus(budget, idealBudget)
        totalExposure == sumExposure(selectedFaces, 0)
    IN  [status |-> status,
         statusMessage |->
             IF status = "insufficient" THEN <<"Budget insuficiente", idealBudget>>
             ELSE IF status = "excessive" THEN <<"Budget em excesso", remainingBudget>>
             ELSE <<"Budget adequado", totalFacesCount>>,
         idealBudget |-> idealBudget,
         allocatedBudget |-> allocatedBudget,
         remainingBudget |-> remainingBudget,
         facesCount |-> totalFacesCount,
         recommendedFaces |-> selectedFaces,
         budgetAdequacy |-> [minRecommended |-> Rat(idealBudget, 2),
                             maxRecommended |-> Rat(Fl(3 * idealBudget), 2),
                             ideal |-> idealBudget],
         totalInventorySize |-> Len(inv),
         exposicao_estimada |-> totalExposure,
         eficiencia |-> IF allocatedBudget > 0
                        THEN Rat(totalExposure, allocatedBudget) ELSE Rat(0, 1)]

\* optimizeAllocation after allocateBudgetToFaces returned
OptimizeFinish ==
    /\ pc = "finish"
    /\ IF entry \in PlanEntries
       THEN optimization' = allocationResult /\ pc' = "group" /\ results' = results
       ELSE Return(allocationResult) /\ optimization' = optimization
    /\ UNCHANGED <<args, browser, accounts, server, client, locals, inv>>

\* ------------------------------------------------ recommendation-service.js
\* face.formato || 'Outros'
formatNameOf(face) == IF face.formato = "" THEN "Outros" ELSE face.formato

RECURSIVE formatNames(_, _)
formatNames(faces, seen) ==
    IF faces = <<>> THEN seen
    ELSE formatNames(Tail(faces),
                     IF \E i \in 1..Len(seen) : seen[i] = formatNameOf(Head(faces))
                     THEN seen ELSE Append(seen, formatNameOf(Head(faces))))

\* groupByFormat(faces): the keys in insertion order, each with its faces in
\* the order they were pushed
groupByFormat(faces) ==
    LET names == formatNames(faces, <<>>)
    IN  [k \in 1..Len(names) |->
            [name |-> names[k],
             faces |-> SelectSeq(faces, LAMBDA f : formatNameOf(f) = names[k])]]

RECURSIVE sumQuantity(_, _)
sumQuantity(faces, sum) ==
    IF faces = <<>> THEN sum
    ELSE sumQuantity(Tail(faces), Fl(sum + Head(faces).quantity))

RECURSIVE sumTotalCost(_, _)
sumTotalCost(faces, sum) ==
    IF faces = <<>> THEN sum
    ELSE sumTotalCost(Tail(faces), Fl(sum + Head(faces).totalCost))

\* formatTotals with the figures of the group's first face only
formatTotalsOfFirstFace(group) ==
    LET first == group.faces[1]
    IN  [name |-> group.name,
         recommendedQty |-> first.quantity,
         totalCost |-> first.totalCost,
         avgUnitCost |-> IF first.quantity = 0 THEN [n |-> first.totalCost, d |-> 0]
                         ELSE Rat(first.totalCost, first.quantity),
         totalExposure |-> sumExposure(<<first>>, 0),
         faces |-> group.faces]

\* the object built per format name; totalCost / 0 is NaN (0/0) or
\* +-Infinity, which cannot arise while every face has quantity > 0
formatTotals(group) ==
    LET totalQty == sumQuantity(group.faces, 0)
        totalCost == sumTotalCost(group.faces, 0)
    IN  [name |-> group.name,
         recommendedQty |-> totalQty,
         totalCost |-> totalCost,
         avgUnitCost |-> IF totalQty = 0 THEN [n |-> totalCost, d |-> 0]
                         ELSE Rat(totalCost, totalQty),
         totalExposure |-> sumExposure(group.faces, 0),
         faces |-> group.faces]

\* formats.sort((a, b) => b.totalCost - a.totalCost), stable
insertByCost(sorted, x) ==
    LET k == Cardinality({i \in 1..Len(sorted) : sorted[i].totalCost >= x.totalCost})
    IN  SubSeq(sorted, 1, k) \o <<x>> \o SubSeq(sorted, k + 1, Len(sorted))

RECURSIVE sortByTotalCost(_)
sortByTotalCost(formats) ==
    IF formats = <<>> THEN <<>>
    ELSE insertByCost(sortByTotalCost(SubSeq(formats, 1, Len(formats) - 1)),
                      formats[Len(formats)])

\* the plan getIdealPlan returns for a successful optimization
idealPlan(opt) ==
    LET formatGroups == groupByFormat(opt.recommendedFaces)
        formats == [k \in 1..Len(formatGroups) |-> formatTotals(formatGroups[k])]
    IN  [status |-> "success",
         taxonomia |-> taxonomia,
         praca |-> praca,
         budget |-> budget,
         campaignCycle |-> campaignCycle,
         formats |-> sortByTotalCost(formats),
         totalCost |-> opt.allocatedBudget,
         totalExposure |-> opt.exposicao_estimada,
         totalFaces |-> opt.facesCount,
         efficiency |-> opt.eficiencia,
         remainingBudget |-> opt.remainingBudget]

\* getIdealPlan after optimizeAllocation returned
GroupFormats ==
    /\ pc = "group"
    /\ IF optimization.status = "error"
       THEN Return(optimization)
       ELSE Return(idealPlan(optimization))
    /\ UNCHANGED <<args, browser, accounts, server, client, locals, inv, optimization>>

\* ------------------------------------------------ recommendation-service.js
\* idealPlan.formats.find(ideal => ideal.name === name): the index of the
\* first format of that name, 0 for undefined
findFormat(formats, name) ==
    IF \E k \in 1..Len(formats) : formats[k].name = name
    THEN CHOOSE k \in 1..Len(formats) :
             formats[k].name = name /\ \A j \in 1..(k - 1) : formats[j].name # name
    ELSE 0

\* sum and quotient of fractions (values derived from avgUnitCost stay exact)
RatAdd(x, y) == Rat(x.n * y.d + y.n * x.d, x.d * y.d)
RatDiv(x, y) == RatMul(x, y.d, y.n)

\* "y > 0 ? x / y : 0" without the test: a division by zero gives Infinity
quotientUnguarded(x, y) ==
    IF y.n > 0 /\ ~IsInf(x) /\ ~IsInf(y) THEN RatDiv(x, y) ELSE Rat(1, 0)

\* "y > 0 ? x / y : 0", the guard of manualEfficiency, of the fallback of
\* idealEfficiency and of efficiencyRatio
quotientOrZero(x, y) ==
    IF y.n > 0 THEN RatDiv(x, y) ELSE Rat(0, 1)

\* manualPlan.formats.reduce(... sum + f.adjustedQty * idealFormat.avgUnitCost)
RECURSIVE manualCostSum(_, _, _)
manualCostSum(formats, plan, sum) ==
    IF formats = <<>> THEN sum
    ELSE LET f == Head(formats)
             k == findFormat(plan.formats, f.name)
         IN  manualCostSum(Tail(formats), plan,
                 IF k = 0 THEN sum
                 ELSE RatAdd(sum, RatMul(plan.formats[k].avgUnitCost, f.adjustedQty, 1)))

\* manualPlan.formats.reduce(... sum + f.adjustedQty * exposureFactor), the
\* factor being that of the ideal format's first face
RECURSIVE manualExposureSum(_, _, _)
manualExposureSum(formats, plan, sum) ==
    IF formats = <<>> THEN sum
    ELSE LET f == Head(formats)
             k == findFormat(plan.formats, f.name)
         IN  manualExposureSum(Tail(formats), plan,
                 IF k = 0 \/ Len(plan.formats[k].faces) = 0 THEN sum
                 ELSE LET representativeFace == plan.formats[k].faces[1]
                          exposureFactor ==
                              getExposureFactor(representativeFace.formato,
                                                representativeFace.digital,
                                                representativeFace.estatico)
                      IN  Fl(sum + Fl(f.adjustedQty * exposureFactor)))

\* Number.prototype.toFixed(1), held as tenths; the sign is kept apart
toFixed1(x) ==
    IF IsInf(x) THEN 0
    ELSE (IF x.n < 0 THEN -1 ELSE 1) *
         (10 * (Abs(x.n) \div x.d) + (20 * (Abs(x.n) % x.d) + x.d) \div (2 * x.d))

\* x >= p/q for a ratio x that is not negative
atLeast(x, p, q) == IsInf(x) \/ RatCmp(x, Rat(p, q)) >= 0

\* calculateEfficiency(manualPlan, idealPlan)
calculateEfficiency(manual, plan) ==
    LET manualTotalCost == manualCostSum(manual.formats, plan, Rat(0, 1))
        manualTotalExposure == manualExposureSum(manual.formats, plan, 0)
        manualEfficiency == quotientOrZero(Rat(manualTotalExposure, 1), manualTotalCost)
        idealEfficiency ==
            IF plan.efficiency.n # 0 THEN plan.efficiency
            ELSE quotientOrZero(Rat(plan.totalExposure, 1), Rat(plan.totalCost, 1))
        efficiencyRatio == quotientOrZero(manualEfficiency, idealEfficiency)
        status == IF atLeast(efficiencyRatio, 95, 100) THEN "efficient"
                  ELSE IF atLeast(efficiencyRatio, 8, 10) THEN "acceptable"
                  ELSE "inefficient"
    IN  [status |-> status,
         statusMessage |->
             IF status = "efficient" THEN "Plano eficiente - Proximo ao ideal"
             ELSE IF status = "acceptable"
             THEN "Plano aceitavel - Ligeiramente abaixo do ideal"
             ELSE "Plano ineficiente - Significativamente abaixo do ideal",
         manualEfficiency |-> manualEfficiency,
         idealEfficiency |-> idealEfficiency,
         efficiencyRatio |-> efficiencyRatio,
         manualTotalCost |-> manualTotalCost,
         manualTotalExposure |-> manualTotalExposure,
         idealTotalCost |-> plan.totalCost,
         idealTotalExposure |-> plan.totalExposure,
         percentageOfIdeal |-> toFixed1(RatMul(efficiencyRatio, 100, 1))]

\* Math.min(face.quantity, targetQty - allocatedQty) replaced by face.quantity
qtyToAllocateWholeFace(face, targetQty, allocatedQty) ==
    face.quantity

\* Math.min(face.quantity, targetQty - allocatedQty)
qtyToAllocate(face, targetQty, allocatedQty) ==
    LET rest == Fl(targetQty - allocatedQty)
    IN  IF face.quantity <= rest THEN face.quantity ELSE rest

\* the entry pushed on playerList (uf and exibidores are not on a selected
\* face, so they are undefined); discount in tenths of a percent
playerRow(face, idealQty, targetQty, qty) ==
    [priority |-> face.priority,
     praca |-> face.praca,
     formato |-> face.formato,
     taxonomia |-> face.taxonomia,
     idealQuantity |-> idealQty,
     negotiatedQuantity |-> targetQty,
     discount |-> IF idealQty > 0
                  THEN toFixed1(Rat(Fl(Fl(idealQty - targetQty) * 100), idealQty))
                  ELSE 0,
     quantity |-> qty,
     unitPrice |-> face.unitPrice,
     totalCost |-> Fl(qty * face.unitPrice),
     roi |-> face.roi,
     digital |-> face.digital,
     estatico |-> face.estatico]

\* "for (const face of idealFormat.faces)" of generatePlayerList
RECURSIVE allocateFaces(_, _, _, _)
allocateFaces(faces, idealQty, targetQty, allocatedQty) ==
    IF faces = <<>> \/ allocatedQty >= targetQty THEN <<>>
    ELSE LET face == Head(faces)
             qty == qtyToAllocate(face, targetQty, allocatedQty)
         IN  IF qty > 0
             THEN <<playerRow(face, idealQty, targetQty, qty)>>
                  \o allocateFaces(Tail(faces), idealQty, targetQty,
                                   Fl(allocatedQty + qty))
             ELSE allocateFaces(Tail(faces), idealQty, targetQty, allocatedQty)

\* manualPlan.formats.forEach of generatePlayerList
RECURSIVE pushPlayers(_, _)
pushPlayers(formats, plan) ==
    IF formats = <<>> THEN <<>>
    ELSE LET manualFormat == Head(formats)
             k == findFormat(plan.formats, manualFormat.name)
         IN  (IF k = 0 THEN <<>>
              ELSE allocateFaces(plan.formats[k].faces,
                                 plan.formats[k].recommendedQty,
                                 manualFormat.adjustedQty, 0))
             \o pushPlayers(Tail(formats), plan)

\* playerList.sort((a, b) => a.priority - b.priority), stable
insertByPriority(sorted, x) ==
    LET k == Cardinality({i \in 1..Len(sorted) : sorted[i].priority <= x.priority})
    IN  SubSeq(sorted, 1, k) \o <<x>> \o SubSeq(sorted, k + 1, Len(sorted))

RECURSIVE sortByPriority(_)
sortByPriority(list) ==
    IF list = <<>> THEN <<>>
    ELSE insertByPriority(sortByPriority(SubSeq(list, 1, Len(list) - 1)),
                          list[Len(list)])

\* generatePlayerList(manualPlan, idealPlan)
generatePlayerList(manual, plan) ==
    sortByPriority(pushPlayers(manual.formats, plan))

\* ------------------------------------------------ the recommendation page
\* fetchIdealPlan, the block's first: the four inputs are set, the request
\* is sent
FetchIdealPlan ==
    /\ results = <<>>
    /\ block.loaded = Len(results)
    /\ RouteGetIdealPlan

\* calculateEfficiency(blockId): POST /api/calculate-efficiency when the block
\* has both plans, null otherwise
\* one run of a function of the recommendation service
invocation(fn, plan) == [fn |-> fn, idealPlan |-> plan.status]

efficiencyOf(manual, plan) ==
    IF plan = NoResult \/ manual = NoResult THEN NoResult
    ELSE calculateEfficiency(manual, plan)

\* generatePlayerList(blockId): POST /api/get-player-list, result.playerList;
\* a list is held as [list |-> rows], so that [] differs from null
playerListOf(manual, plan) == [list |-> generatePlayerList(manual, plan)]

\* fetchIdealPlan after the response arrived: an error drops the ideal plan;
\* a plan is kept, the manual plan starts from its quantities and the
\* efficiency is calculated
FetchIdealPlanLoaded ==
    /\ pc \in {"idle", "done"}
    /\ block.loaded < Len(results)
    /\ LET response == results[Len(results)]
           manual == [formats |->
                         [k \in 1..Len(response.formats) |->
                             [name |-> response.formats[k].name,
                              adjustedQty |-> response.formats[k].recommendedQty]]]
       IN  IF response.status = "error"
           THEN block' = [block EXCEPT !.idealPlan = NoResult,
                                       !.loaded = Len(results)]
           ELSE block' = [block EXCEPT !.idealPlan = response,
                                       !.manualPlan = manual,
                                       !.efficiencyMetrics = efficiencyOf(manual, response),
                                       !.loaded = Len(results)]
    /\ invoked' = IF results[Len(results)].status = "error" THEN invoked
                  ELSE invoked \cup {invocation("calculateEfficiency",
                                                results[Len(results)])}
    /\ UNCHANGED <<args, browser, accounts, reply, locals, pc, inv, optimization, results, planning>>

\* the input handler of a manual adjustment field: the quantity is stored,
\* the efficiency recalculated and a player list already shown regenerated
AdjustQuantity ==
    /\ pc \in {"idle", "done"}
    /\ block.loaded = Len(results)
    /\ block.idealPlan # NoResult /\ block.manualPlan # NoResult
    /\ \E index \in 1..Len(block.manualPlan.formats), newQty \in 0..MaxQty :
           LET manual == [block.manualPlan EXCEPT !.formats[index].adjustedQty = newQty]
           IN  block' = [block EXCEPT
                            !.manualPlan = manual,
                            !.efficiencyMetrics = efficiencyOf(manual, block.idealPlan),
                            !.playerList = IF block.playerList # NoResult
                                           THEN playerListOf(manual, block.idealPlan)
                                           ELSE NoResult]
    /\ invoked' = invoked
                  \cup {invocation("calculateEfficiency", block.idealPlan)}
                  \cup (IF block.playerList # NoResult
                        THEN {invocation("generatePlayerList", block.idealPlan)}
                        ELSE {})
    /\ UNCHANGED <<args, browser, accounts, reply, locals, pc, inv, optimization, results, planning>>

\* the button that generates the player list
ClickGeneratePlayerList ==
    /\ pc \in {"idle", "done"}
    /\ block.loaded = Len(results)
    /\ block.idealPlan # NoResult /\ block.manualPlan # NoResult
    /\ block' = [block EXCEPT !.playerList = playerListOf(block.manualPlan, block.idealPlan)]
    /\ invoked' = invoked \cup {invocation("generatePlayerList", block.idealPlan)}
    /\ UNCHANGED <<args, browser, accounts, reply, locals, pc, inv, optimization, results, planning>>

\* ------------------------------------------------------ public/js/app.js
\* A planning row: unitario_bruto_tabela and totalLinha in currency units;
\* pesos and index in hundredths (pesos 0 is a missing or zero weight);
\* negociacao_edit in thousandths; custoFace and ttNeg in cents.
\* fetchPlanningData: the row as initialised from a row of the response
planningRow(id, price, faces, pesos) ==
    [id |-> id, unitario_bruto_tabela |-> price, totalFaces |-> faces,
     pesos |-> pesos, negociacao_edit |-> 0,
     s1_edit |-> 0, s2_edit |-> 0, s3_edit |-> 0, s4_edit |-> 0,
     facesUsadas |-> 0, budgetIdeal |-> 0, custoFace |-> 0, ttNeg |-> 0,
     totalLinha |-> 0, index |-> Fl(faces * (IF pesos = 0 THEN 50 ELSE pesos))]

\* the rows /api/get-planning-data answers with
R1 == planningRow(1, 500, 3, 90)
R2 == planningRow(2, 15, 5, 80)
R3 == planningRow(3, 1000, 2, 0)
R4 == planningRow(4, 348, 4, 50)
R5 == planningRow(5, 0, 3, 90)
RowCatalogue == {R1, R2, R3, R4, R5}

PlanningRows(n) ==
    UNION {{s \in [1..k -> RowCatalogue] : \A i, j \in 1..k : i # j => s[i] # s[j]} :
           k \in 1..n}

\* r.pesos || 0.5 and r.pesos || 0, in hundredths
pesosOrHalf(row) == IF row.pesos = 0 THEN 50 ELSE row.pesos
pesosOrZero(row) == row.pesos

\* Math.floor of a fraction that is not negative
floor(x) == x.n \div x.d

\* the least k with n * 2^k >= d * 2^(Prec - 1)
RECURSIVE ScaleUp(_, _)
ScaleUp(n, d) == IF n >= d * Pow2(Prec - 1) THEN 0 ELSE 1 + ScaleUp(2 * n, d)

\* round-to-nearest, ties-to-even, of n/d to a whole number
roundEven(n, d) ==
    LET q == n \div d
        r == n % d
    IN  IF 2 * r > d \/ (2 * r = d /\ q % 2 = 1) THEN q + 1 ELSE q

\* the Number that a division with exact result x >= 0 produces; where the
\* quotient is floored or multiplied further its rounding is kept
FlRat(x) ==
    IF x.n = 0 THEN x
    ELSE IF x.n >= x.d * Pow2(Prec - 1)
    THEN LET k == BitLen(x.n \div x.d) - Prec
         IN  Rat(roundEven(x.n, x.d * Pow2(k)) * Pow2(k), 1)
    ELSE LET k == ScaleUp(x.n, x.d)
         IN  Rat(roundEven(x.n * Pow2(k), x.d), Pow2(k))

\* Math.min(maxAffordable, row.totalFaces) without the cap
minUncapped(a, b) == a
min(a, b) == IF a <= b THEN a ELSE b

\* rows.reduce((sum, r) => sum + r.unitario_bruto_tabela * r.totalFaces, 0)
RECURSIVE totalMaxCostOf(_, _)
totalMaxCostOf(rows, sum) ==
    IF rows = <<>> THEN sum
    ELSE totalMaxCostOf(Tail(rows),
                        Fl(sum + Fl(Head(rows).unitario_bruto_tabela * Head(rows).totalFaces)))

\* rows.reduce((sum, r) => sum + (r.pesos || 0.5), 0)
RECURSIVE totalWeightOf(_, _)
totalWeightOf(rows, sum) ==
    IF rows = <<>> THEN sum
    ELSE totalWeightOf(Tail(rows), Fl(sum + pesosOrHalf(Head(rows))))

\* indexed.sort((a, b) => (b.row.pesos || 0) - (a.row.pesos || 0)), stable:
\* the positions of the rows, highest weight first
insertByPesos(rows, sorted, i) ==
    LET k == Cardinality({j \in 1..Len(sorted) :
                             pesosOrZero(rows[sorted[j]]) >= pesosOrZero(rows[i])})
    IN  SubSeq(sorted, 1, k) \o <<i>> \o SubSeq(sorted, k + 1, Len(sorted))

RECURSIVE sortByPesos(_, _)
sortByPesos(rows, n) ==
    IF n = 0 THEN <<>> ELSE insertByPesos(rows, sortByPesos(rows, n - 1), n)

\* row.s1_edit = row.s2_edit = row.s3_edit = row.s4_edit = faces
withFaces(row, faces) ==
    [row EXCEPT !.s1_edit = faces, !.s2_edit = faces, !.s3_edit = faces,
                !.s4_edit = faces]

\* autoAllocateFaces, limited budget, first pass: each row in weight order
\* gets floor(budget * weightShare / price) faces, at most totalFaces
RECURSIVE firstPass(_, _, _, _, _, _)
firstPass(rows, order, k, blockBudget, totalWeight, remaining) ==
    IF k > Len(order) THEN [rows |-> rows, remainingBudget |-> remaining]
    ELSE LET i     == order[k]
             row   == rows[i]
             price == row.unitario_bruto_tabela
         IN  IF remaining <= 0 \/ price <= 0
             THEN firstPass([rows EXCEPT ![i] = withFaces(row, 0)], order, k + 1,
                            blockBudget, totalWeight, remaining)
             ELSE LET weightShare   == FlRat(Rat(pesosOrHalf(row), totalWeight))
                      rowBudget     == FlRat(RatMul(weightShare, blockBudget, 1))
                      maxAffordable == floor(FlRat(RatDiv(rowBudget, Rat(price, 1))))
                      allocated     == min(maxAffordable, row.totalFaces)
                  IN  firstPass([rows EXCEPT ![i] = withFaces(row, allocated)],
                                order, k + 1, blockBudget, totalWeight,
                                Fl(remaining - Fl(price * allocated)))

\* second pass: the budget left over goes to the rows in the same order
RECURSIVE secondPass(_, _, _, _)
secondPass(rows, order, k, remaining) ==
    IF k > Len(order) \/ remaining <= 0 THEN rows
    ELSE LET i      == order[k]
             row    == rows[i]
             price  == row.unitario_bruto_tabela
             canAdd == row.totalFaces - row.s1_edit
             extra  == IF canAdd > 0 /\ price > 0
                       THEN min(floor(FlRat(Rat(remaining, price))), canAdd) ELSE 0
         IN  IF extra > 0
             THEN secondPass([rows EXCEPT ![i] = withFaces(row, row.s1_edit + extra)],
                             order, k + 1, Fl(remaining - Fl(price * extra)))
             ELSE secondPass(rows, order, k + 1, remaining)

max4(a, b, c, d) ==
    CHOOSE m \in {a, b, c, d} : \A x \in {a, b, c, d} : x <= m

\* Math.round of a fraction that is not negative
round(x) == (2 * x.n + x.d) \div (2 * x.d)

RECURSIVE totalTabelaValueOf(_, _)
totalTabelaValueOf(rows, sum) ==
    IF rows = <<>> THEN sum
    ELSE totalTabelaValueOf(Tail(rows), Fl(sum + Head(rows).totalLinha))

\* recalculatePlanningRows with ttNeg taken from the custoFace that the
\* row held before
recalculateRowFromOutputs(row) ==
    LET facesUsadas == max4(row.s1_edit, row.s2_edit, row.s3_edit, row.s4_edit)
        custoFace   == round(Rat(row.unitario_bruto_tabela * (1000 - row.negociacao_edit),
                                 10))
    IN  [row EXCEPT !.facesUsadas = facesUsadas,
                    !.totalLinha  = Fl(row.unitario_bruto_tabela * facesUsadas),
                    !.custoFace   = custoFace,
                    !.ttNeg       = row.custoFace * facesUsadas,
                    !.index       = facesUsadas * pesosOrHalf(row)]
\* recalculatePlanningRows: the derived fields of every row
recalculateRow(row) ==
    LET facesUsadas == max4(row.s1_edit, row.s2_edit, row.s3_edit, row.s4_edit)
        custoFace   == round(Rat(row.unitario_bruto_tabela * (1000 - row.negociacao_edit),
                                 10))
    IN  [row EXCEPT !.facesUsadas = facesUsadas,
                    !.totalLinha  = Fl(row.unitario_bruto_tabela * facesUsadas),
                    !.custoFace   = custoFace,
                    !.ttNeg       = custoFace * facesUsadas,
                    !.index       = facesUsadas * pesosOrHalf(row)]

\* recalculatePlanningRows with the budget split by the negotiated totals
recalculatePlanningRowsByNegotiated(blockBudget, planningRows) ==
    LET rows == [i \in 1..Len(planningRows) |-> recalculateRow(planningRows[i])]
        RECURSIVE ttNegOf(_)
        ttNegOf(k) == IF k = 0 THEN 0 ELSE ttNegOf(k - 1) + rows[k].ttNeg
        totalNeg == ttNegOf(Len(rows))
    IN  [i \in 1..Len(rows) |->
            [rows[i] EXCEPT !.budgetIdeal =
                IF totalNeg > 0
                THEN round(FlRat(RatMul(FlRat(Rat(rows[i].ttNeg, totalNeg)),
                                        blockBudget, 1)))
                ELSE 0]]
recalculatePlanningRows(blockBudget, planningRows) ==
    LET rows == [i \in 1..Len(planningRows) |-> recalculateRow(planningRows[i])]
        totalTabelaValue == totalTabelaValueOf(rows, 0)
    IN  [i \in 1..Len(rows) |->
            [rows[i] EXCEPT !.budgetIdeal =
                IF totalTabelaValue > 0
                THEN round(FlRat(RatMul(FlRat(Rat(rows[i].totalLinha, totalTabelaValue)),
                                        blockBudget, 1)))
                ELSE 0]]

\* autoAllocateFaces(block): block.planningRows afterwards
autoAllocateFaces(blockBudget, rows) ==
    LET totalMaxCost == totalMaxCostOf(rows, 0)
        order        == sortByPesos(rows, Len(rows))
        first        == firstPass(rows, order, 1, blockBudget, totalWeightOf(rows, 0), blockBudget)
        allocated    ==
            IF totalMaxCost <= 0 \/ blockBudget <= 0
            THEN [i \in 1..Len(rows) |-> withFaces(rows[i], 0)]
            ELSE IF blockBudget >= totalMaxCost
            THEN [i \in 1..Len(rows) |-> withFaces(rows[i], rows[i].totalFaces)]
            ELSE IF first.remainingBudget > 0
            THEN secondPass(first.rows, order, 1, first.remainingBudget)
            ELSE first.rows
    IN  recalculatePlanningRows(blockBudget, allocated)

\* the budgets typed into the budget field of the planning table
AutoBudgets == {0, 45, 1040, 2048, 3008}

\* fetchPlanningData, response received: the block keeps the rows and
\* allocates the faces for the budget it holds by then
FetchPlanningDataLoaded ==
    /\ planning.planningData # <<>>
    /\ planning.planningRows = <<>>
    /\ planning' = [planning EXCEPT !.planningRows =
                        autoAllocateFaces(planning.budget, planning.planningData)]
    /\ UNCHANGED <<args, browser, accounts, server, block, locals, pc, inv, optimization, results>>

\* the budget field: the block takes the typed budget and, its rows being
\* loaded, allocates the faces again; without rows it waits for the response
BudgetInput ==
    /\ planning.planningData # <<>>
    /\ \E value \in AutoBudgets :
          planning' = [planning EXCEPT
                          !.budget = value,
                          !.planningRows =
                              IF planning.planningRows # <<>>
                              THEN autoAllocateFaces(value, planning.planningRows)
                              ELSE <<>>]
    /\ UNCHANGED <<args, browser, accounts, server, block, locals, pc, inv, optimization, results>>

\* --------------------------------- server.js, efficiency and player list
\* calculateEfficiency given an ideal plan without formats: with no manual
\* format it scores a ratio of 0, with one the lookup throws and the catch
\* answers an error
calculateEfficiencyWithoutFormats(manual) ==
    IF manual.formats = <<>> THEN [status |-> "inefficient"]
    ELSE [status |-> "error"]

\* the request bodies: the plans are missing, or the manual plan of the
\* page or an empty one, and any answer of /api/get-ideal-plan
ManualBodies ==
    {NoResult, [formats |-> <<>>]}
        \cup (IF block.manualPlan # NoResult THEN {block.manualPlan} ELSE {})
IdealBodies == {NoResult} \cup {results[i] : i \in 1..Len(results)}

\* POST /api/calculate-efficiency
RouteCalculateEfficiency ==
    /\ pc \in {"idle", "done"}
    /\ \E manualPlan \in ManualBodies, plan \in IdealBodies :
          IF manualPlan = NoResult \/ plan = NoResult
          THEN /\ reply' = [code |-> 400, status |-> "error"]
               /\ UNCHANGED invoked
          ELSE /\ invoked' = invoked \cup {invocation("calculateEfficiency", plan)}
               /\ reply' = [code |-> 200,
                            status |-> IF "formats" \in DOMAIN plan
                                       THEN calculateEfficiency(manualPlan, plan).status
                                       ELSE calculateEfficiencyWithoutFormats(manualPlan).status]
    /\ UNCHANGED <<args, browser, accounts, client, locals, pc, inv, optimization, results>>

\* POST /api/get-player-list
RouteGetPlayerList ==
    /\ pc \in {"idle", "done"}
    /\ \E manualPlan \in ManualBodies, plan \in IdealBodies :
          IF manualPlan = NoResult \/ plan = NoResult
          THEN /\ reply' = [code |-> 400, status |-> "error"]
               /\ UNCHANGED invoked
          ELSE /\ invoked' = invoked \cup {invocation("generatePlayerList", plan)}
               /\ reply' = [code |-> 200, status |-> "success"]
    /\ UNCHANGED <<args, browser, accounts, client, locals, pc, inv, optimization, results>>

\* the values typed into a weekly bucket and into the discount field (the
\* discount in thousandths: 10% and 12.5%)
WeekValues == {0, 1, MaxQty}
NegValues == {0, 100, 125}

\* a weekly bucket of a row is edited: the row takes parseInt(value) || 0
\* and the table is recalculated
EditWeek ==
    /\ planning.planningRows # <<>>
    /\ planning.edits < MaxEdits
    /\ \E rowIdx \in 1..Len(planning.planningRows),
          field \in {"s1_edit", "s2_edit", "s3_edit", "s4_edit"},
          value \in WeekValues :
          planning' = [planning EXCEPT
              !.edits = @ + 1,
              !.planningRows = recalculatePlanningRows(planning.budget,
                                   [@ EXCEPT ![rowIdx] = [@ EXCEPT ![field] = value]])]
    /\ UNCHANGED <<args, browser, accounts, server, block, locals, pc, inv, optimization, results>>

\* the discount of a row is edited: negociacao_edit = pct / 100 and the
\* table is recalculated
EditNegociacao ==
    /\ planning.planningRows # <<>>
    /\ planning.edits < MaxEdits
    /\ \E rowIdx \in 1..Len(planning.planningRows), value \in NegValues :
          planning' = [planning EXCEPT
              !.edits = @ + 1,
              !.planningRows = recalculatePlanningRows(planning.budget,
                                   [@ EXCEPT ![rowIdx] =
                                       [@ EXCEPT !.negociacao_edit = value]])]
    /\ UNCHANGED <<args, browser, accounts, server, block, locals, pc, inv, optimization, results>>

\* ------------------------------------------ the pages and their blocks
\* A null number is 0 and a null string is "" (e.target.value || null); a
\* null plan is NoResult.
Pages == {"recommendation", "planning"}

\* createBlockState(id) of unnamed/part_001 and of public/js/app.js
createBlockState(id) ==
    IF page = "recommendation"
    THEN [id |-> id, active |-> FALSE, budget |-> 0, campaignCycle |-> 0,
          taxonomia |-> "", praca |-> "", idealPlan |-> NoResult,
          manualPlan |-> NoResult, efficiencyMetrics |-> NoResult,
          playerList |-> NoResult]
    ELSE [id |-> id, active |-> FALSE, budget |-> 0, campaignCycle |-> 4,
          taxonomia |-> "", praca |-> "", planningData |-> NoResult,
          planningRows |-> NoResult]

\* state.mediaBlocks.find(b => b.id === Number(id)): the reference of the
\* first listed block with this id, 0 when there is none
getBlockById(id) ==
    LET found == {k \in 1..Len(mediaBlocks) : heap[mediaBlocks[k]].id = id}
    IN  IF found = {} THEN 0
        ELSE mediaBlocks[CHOOSE k \in found : \A j \in found : k <= j]

Listed == {mediaBlocks[k] : k \in 1..Len(mediaBlocks)}

\* the values of the input fields; no inventory has the taxonomy "Luxo"
BudgetValues == {0, 1040}
CycleValues == {4}
TaxonomiaValues == {"Premium", "Tudo", "Luxo"}
PracaValues == {"SAO PAULO"}

\* the body of a request: the inputs of the block when it was sent
inputsOf(b) ==
    [budget |-> b.budget, campaignCycle |-> b.campaignCycle,
     taxonomia |-> b.taxonomia, praca |-> b.praca]

\* what /api/get-ideal-plan and /api/get-planning-data answer: an error
\* without inventory, else the plan data of the inputs in the body
answerFor(body) ==
    IF body.taxonomia = "Luxo" THEN [status |-> "error"]
    ELSE IF page = "recommendation"
    THEN [status |-> "success", budget |-> body.budget,
          campaignCycle |-> body.campaignCycle,
          taxonomia |-> body.taxonomia, praca |-> body.praca]
    ELSE [status |-> "success", taxonomia |-> body.taxonomia, praca |-> body.praca]

\* what /api/calculate-efficiency and /api/get-player-list answer: the
\* score and the list of the two plans in the body
projectionOf(kind, manualPlan, plan) ==
    [status |-> kind, manualPlan |-> manualPlan, idealPlan |-> plan]

request(kind, ref, body, manualPlan, plan) ==
    [kind |-> kind, ref |-> ref, blockId |-> heap[ref].id, body |-> body,
     manualPlan |-> manualPlan, idealPlan |-> plan]

NoBody == [budget |-> 0, campaignCycle |-> 0, taxonomia |-> "", praca |-> ""]

\* autoAllocateFaces(block): the rows of the planning data, allocated for
\* the budget the block holds
allocatedRows(planningData, blockBudget) ==
    [status |-> "allocated", rows |-> planningData, budget |-> blockBudget]

\* everything outside the pages with blocks
outside == <<args, client, server, accounts, locals, pc, inv, optimization, results>>

\* fetchIdealPlan(blockId) and fetchPlanningData(blockId) up to the await:
\* with an input missing the block loses its plan data and its active flag,
\* else the request leaves with the inputs of the block
startFetch(h, ref) ==
    LET b == h[ref]
    IN  IF page = "recommendation"
        THEN IF b.budget = 0 \/ b.campaignCycle = 0 \/ b.taxonomia = "" \/ b.praca = ""
             THEN [heap |-> [h EXCEPT ![ref].idealPlan = NoResult,
                                      ![ref].active = FALSE],
                   requests |-> {}]
             ELSE [heap |-> h,
                   requests |-> {request("get-ideal-plan", ref, inputsOf(b),
                                         NoResult, NoResult)}]
        ELSE IF b.budget = 0 \/ b.taxonomia = "" \/ b.praca = ""
             THEN [heap |-> [h EXCEPT ![ref].planningData = NoResult,
                                      ![ref].planningRows = NoResult,
                                      ![ref].active = FALSE],
                   requests |-> {}]
             ELSE [heap |-> h,
                   requests |-> {request("get-planning-data", ref, inputsOf(b),
                                         NoResult, NoResult)}]

\* a handler of an input field of block ref ran: h is the heap with the
\* typed value, and the fetch starts
Typed(ref, h) ==
    LET started == startFetch(h, ref)
    IN  /\ started.requests = {} \/ sent < MaxRequests
        /\ heap' = started.heap
        /\ inflight' = inflight \cup started.requests
        /\ sent' = sent + Cardinality(started.requests)
        /\ actor' = ref
        /\ untouched' = untouched \ {ref}
        /\ UNCHANGED <<page, mediaBlocks, nextBlockId>>
        /\ UNCHANGED outside

\* the budget field; on the planning page a block with rows allocates its
\* faces again and sends nothing
TypeBudget ==
    \E ref \in Listed, value \in BudgetValues :
        IF page = "planning" /\ heap[ref].planningRows # NoResult
        THEN /\ heap' = [heap EXCEPT ![ref].budget = value,
                                     ![ref].planningRows =
                                         allocatedRows(heap[ref].planningRows.rows, value)]
             /\ actor' = ref
             /\ untouched' = untouched \ {ref}
             /\ UNCHANGED <<page, mediaBlocks, nextBlockId, inflight, sent>>
             /\ UNCHANGED outside
        ELSE Typed(ref, [heap EXCEPT ![ref].budget = value])

\* the campaign cycle field of the recommendation page
TypeCycle ==
    /\ page = "recommendation"
    /\ \E ref \in Listed, value \in CycleValues :
           Typed(ref, [heap EXCEPT ![ref].campaignCycle = value])

SelectTaxonomia ==
    \E ref \in Listed, value \in TaxonomiaValues :
        Typed(ref, [heap EXCEPT ![ref].taxonomia = value])

SelectPraca ==
    \E ref \in Listed, value \in PracaValues :
        Typed(ref, [heap EXCEPT ![ref].praca = value])

\* resetBlock(blockId): the fields of the block afterwards
resetBlock(b) ==
    IF page = "recommendation"
    THEN [b EXCEPT !.budget = 0, !.campaignCycle = 0, !.taxonomia = "",
                   !.praca = "", !.idealPlan = NoResult, !.manualPlan = NoResult,
                   !.efficiencyMetrics = NoResult, !.playerList = NoResult,
                   !.active = FALSE]
    ELSE [b EXCEPT !.budget = 0, !.campaignCycle = 4, !.taxonomia = "",
                   !.praca = "", !.planningData = NoResult,
                   !.planningRows = NoResult, !.active = FALSE]

\* addBlock()
ClickAddBlock ==
    /\ Len(mediaBlocks) < MaxBlocks
    /\ Len(heap) < MaxObjects
    /\ heap' = Append(heap, createBlockState(nextBlockId))
    /\ mediaBlocks' = Append(mediaBlocks, Len(heap) + 1)
    /\ nextBlockId' = nextBlockId + 1
    /\ actor' = 0
    /\ UNCHANGED <<page, inflight, sent, untouched>>
    /\ UNCHANGED outside

\* removeBlock(blockId): the last block of the list is reset, any other
\* leaves the list
ClickDelete ==
    /\ \E ref \in Listed :
          /\ IF Len(mediaBlocks) <= 1
             THEN /\ heap' = [heap EXCEPT ![ref] = resetBlock(heap[ref])]
                  /\ untouched' = untouched \cup {ref}
                  /\ UNCHANGED mediaBlocks
             ELSE /\ mediaBlocks' = SelectSeq(mediaBlocks,
                                       LAMBDA r : heap[r].id # heap[ref].id)
                  /\ UNCHANGED <<heap, untouched>>
          /\ actor' = ref
    /\ UNCHANGED <<page, nextBlockId, inflight, sent>>
    /\ UNCHANGED outside

\* resetAll(): one new block with id 1 replaces the list
ClickResetAll ==
    /\ Len(heap) < MaxObjects
    /\ heap' = Append(heap, createBlockState(1))
    /\ mediaBlocks' = <<Len(heap) + 1>>
    /\ nextBlockId' = 2
    /\ actor' = 0
    /\ UNCHANGED <<page, inflight, sent, untouched>>
    /\ UNCHANGED outside

\* the manual plan fetchIdealPlan starts from (the recommended quantity),
\* and the quantities typed into its field
IdealQuantity == 1
manualPlanOf(qty) == [adjustedQty |-> qty]
QuantityValues == {0, MaxQty}

\* calculateEfficiency(blockId) up to the await, run for the listed block
\* with this id: without plans the metrics are dropped, else the request
\* leaves with the two plans of the block
startEfficiency(h, target) ==
    IF h[target].idealPlan = NoResult \/ h[target].manualPlan = NoResult
    THEN [heap |-> [h EXCEPT ![target].efficiencyMetrics = NoResult], requests |-> {}]
    ELSE [heap |-> h,
          requests |-> {request("calculate-efficiency", target, NoBody,
                                h[target].manualPlan, h[target].idealPlan)}]

\* fetchIdealPlan after the await: an error drops the plan; a plan is kept
\* with its manual plan and calculateEfficiency(blockId) runs, which
\* throws when no listed block has the id, so that the catch drops the plan
IdealPlanSettles ==
    \E req \in inflight :
        /\ req.kind = "get-ideal-plan"
        /\ LET answer == answerFor(req.body)
               ref    == req.ref
               kept   == [heap EXCEPT ![ref].idealPlan = answer,
                                      ![ref].active = TRUE,
                                      ![ref].manualPlan = manualPlanOf(IdealQuantity)]
               target == getBlockById(req.blockId)
               after  == IF answer.status = "error" \/ target = 0
                         THEN [heap |-> [(IF answer.status = "error" THEN heap ELSE kept)
                                            EXCEPT ![ref].idealPlan = NoResult,
                                                   ![ref].active = FALSE],
                               requests |-> {}]
                         ELSE startEfficiency(kept, target)
           IN  /\ heap' = after.heap
               /\ inflight' = (inflight \ {req}) \cup after.requests
               /\ actor' = ref
        /\ UNCHANGED <<page, mediaBlocks, nextBlockId, sent, untouched>>
        /\ UNCHANGED outside

\* fetchPlanningData after the await
PlanningDataSettles ==
    \E req \in inflight :
        /\ req.kind = "get-planning-data"
        /\ LET answer == answerFor(req.body)
               ref    == req.ref
           IN  /\ heap' = IF answer.status = "error"
                          THEN [heap EXCEPT ![ref].planningData = NoResult,
                                            ![ref].active = FALSE]
                          ELSE [heap EXCEPT ![ref].planningData = answer,
                                            ![ref].active = TRUE,
                                            ![ref].planningRows =
                                                allocatedRows(answer, heap[ref].budget)]
               /\ inflight' = inflight \ {req}
               /\ actor' = ref
        /\ UNCHANGED <<page, mediaBlocks, nextBlockId, sent, untouched>>
        /\ UNCHANGED outside

\* calculateEfficiency after the await
EfficiencySettles ==
    \E req \in inflight :
        /\ req.kind = "calculate-efficiency"
        /\ heap' = [heap EXCEPT ![req.ref].efficiencyMetrics =
                        projectionOf("efficiency", req.manualPlan, req.idealPlan)]
        /\ inflight' = inflight \ {req}
        /\ actor' = req.ref
        /\ UNCHANGED <<page, mediaBlocks, nextBlockId, sent, untouched>>
        /\ UNCHANGED outside

\* generatePlayerList after the await
PlayerListSettles ==
    \E req \in inflight :
        /\ req.kind = "get-player-list"
        /\ heap' = [heap EXCEPT ![req.ref].playerList =
                        projectionOf("playerList", req.manualPlan, req.idealPlan)]
        /\ inflight' = inflight \ {req}
        /\ actor' = req.ref
        /\ UNCHANGED <<page, mediaBlocks, nextBlockId, sent, untouched>>
        /\ UNCHANGED outside

\* the manual adjustment section is on screen
Adjustable(ref) ==
    /\ page = "recommendation"
    /\ heap[ref].active
    /\ heap[ref].idealPlan # NoResult
    /\ heap[ref].manualPlan # NoResult

\* a manual adjustment field: the quantity is stored, calculateEfficiency
\* starts, and generatePlayerList too when a list is there
TypeQuantity ==
    \E ref \in Listed, newQty \in QuantityValues :
        /\ Adjustable(ref)
        /\ sent < MaxRequests
        /\ LET h == [heap EXCEPT ![ref].manualPlan = manualPlanOf(newQty)]
               requests ==
                   {request("calculate-efficiency", ref, NoBody,
                            h[ref].manualPlan, h[ref].idealPlan)}
                   \cup (IF h[ref].playerList # NoResult
                         THEN {request("get-player-list", ref, NoBody,
                                       h[ref].manualPlan, h[ref].idealPlan)}
                         ELSE {})
           IN  /\ heap' = h
               /\ inflight' = inflight \cup requests
               /\ sent' = sent + 1
        /\ actor' = ref
        /\ untouched' = untouched \ {ref}
        /\ UNCHANGED <<page, mediaBlocks, nextBlockId>>
        /\ UNCHANGED outside

\* the button that generates the player list
ClickGenerateList ==
    \E ref \in Listed :
        /\ Adjustable(ref)
        /\ sent < MaxRequests
        /\ inflight' = inflight \cup
               {request("get-player-list", ref, NoBody,
                        heap[ref].manualPlan, heap[ref].idealPlan)}
        /\ sent' = sent + 1
        /\ actor' = ref
        /\ untouched' = untouched \ {ref}
        /\ UNCHANGED <<page, heap, mediaBlocks, nextBlockId>>
        /\ UNCHANGED outside

\* ------------------------------------------------------------ specification
Next ==
    \/ RouteOptimizeBudget
    \/ RouteGetIdealPlan
    \/ CallOptimizeAllocation
    \/ CallGetIdealPlan
    \/ GetIdealPlanFilter
    \/ OptimizeBegin
    \/ WalkStep
    \/ OptimizeFinish
    \/ GroupFormats

Spec == Init /\ [][Next]_vars

\* the recommendation page: a block with its four inputs set fetches its
\* ideal plan, the quantities are adjusted, the player list is generated
PlanBudgets == {45, 1040, 3008}

InitPlan ==
    /\ entry = "POST /api/get-ideal-plan"
    /\ budget \in PlanBudgets
    /\ campaignCycle = 4
    /\ \E f \in Filters : taxonomia = f[1] /\ praca = f[2]
    /\ inventory \in PlanInventories(MaxItems)
    /\ pc = "idle"
    /\ inv = <<>>
    /\ idealBudget = 0
    /\ rankedFaces = <<>>
    /\ idx = 1
    /\ remainingBudget = 0
    /\ selectedFaces = <<>>
    /\ totalFacesCount = 0
    /\ walk = <<>>
    /\ optimization = NoResult
    /\ results = <<>>
    /\ block = NoBlock
    /\ planning = NoPlanning
    /\ invoked = {}
    /\ reply = NoResult
    /\ NoBrowser
    /\ NoAccounts

NextPlan ==
    \/ FetchIdealPlan
    \/ GetIdealPlanFilter
    \/ OptimizeBegin
    \/ WalkStep
    \/ OptimizeFinish
    \/ GroupFormats
    \/ FetchIdealPlanLoaded
    \/ AdjustQuantity
    \/ ClickGeneratePlayerList

SpecPlan == InitPlan /\ [][NextPlan]_vars

\* The recommendation page and, next to it, the efficiency and player-list
\* routes answering requests of any client.
NextPipeline ==
    \/ NextPlan
    \/ RouteCalculateEfficiency
    \/ RouteGetPlayerList

InitPipeline == InitPlan /\ Len(inventory) < MaxItems

SpecPipeline == InitPipeline /\ [][NextPipeline]_vars

\* The planning table of one block: a budget was typed, the request for the
\* planning data is in flight, and the budget field stays editable.
InitAuto ==
    /\ entry = "POST /api/get-planning-data"
    /\ budget = 0
    /\ campaignCycle = 4
    /\ taxonomia = "Tudo"
    /\ praca = "Tudo"
    /\ inventory = <<>>
    /\ pc = "idle"
    /\ inv = <<>>
    /\ idealBudget = 0
    /\ rankedFaces = <<>>
    /\ idx = 1
    /\ remainingBudget = 0
    /\ selectedFaces = <<>>
    /\ totalFacesCount = 0
    /\ walk = <<>>
    /\ optimization = NoResult
    /\ results = <<>>
    /\ block = NoBlock
    /\ invoked = {}
    /\ reply = NoResult
    /\ NoBrowser
    /\ NoAccounts
    /\ \E value \in AutoBudgets \ {0}, rows \in PlanningRows(MaxItems) :
          planning = [budget |-> value, planningData |-> rows, planningRows |-> <<>>,
                      edits |-> 0]

NextAuto ==
    \/ FetchPlanningDataLoaded
    \/ BudgetInput

SpecAuto == InitAuto /\ [][NextAuto]_vars

\* ------------------------------------------------ server.js: saved plans
\* everything outside the sessions and the table of plans
beyondAccounts == <<args, browser, client, server, locals, pc, inv, optimization, results>>

respond(route, c, id, code, returned) ==
    [route |-> route, client |-> c, id |-> id, code |-> code, plans |-> returned]

\* the middleware in front of every /api route
isAuthenticated(c) == session[c] # 0

\* what the plan names of a request body are: a missing name is ""
PlanNames == {"", "Natal"}
PlanIds == 1..MaxPlans
NoPlan == [id |-> 0, user_id |-> 0, name |-> ""]

\* INSERT INTO plans: the row gets the next id
savePlan(userId, name) ==
    Append(plans, [id |-> Len(plans) + 1, user_id |-> userId, name |-> name])

\* SELECT id, name, created_at FROM plans WHERE user_id = ?
getUserPlansOfAll(userId) ==
    {plans[k].id : k \in 1..Len(plans)}
getUserPlans(userId) ==
    {plans[k].id : k \in {n \in 1..Len(plans) : plans[n].user_id = userId}}

\* SELECT * FROM plans WHERE id = ?
getPlanById(id) ==
    IF \E k \in 1..Len(plans) : plans[k].id = id
    THEN plans[CHOOSE k \in 1..Len(plans) : plans[k].id = id]
    ELSE NoPlan

\* POST /login: verifyUser finds the user or not
RouteLogin ==
    \E c \in Clients, user \in Users \cup {0} :
        /\ session' = IF user # 0 THEN [session EXCEPT ![c] = user] ELSE session
        /\ res' = respond("POST /login", c, 0, IF user # 0 THEN 200 ELSE 401, {})
        /\ UNCHANGED plans
        /\ UNCHANGED beyondAccounts

\* POST /logout
RouteLogout ==
    \E c \in Clients :
        /\ session' = [session EXCEPT ![c] = 0]
        /\ res' = respond("POST /logout", c, 0, 200, {})
        /\ UNCHANGED plans
        /\ UNCHANGED beyondAccounts

\* POST /api/plans
RoutePostPlan ==
    \E c \in Clients, name \in PlanNames :
        /\ Len(plans) < MaxPlans
        /\ IF ~isAuthenticated(c)
           THEN /\ res' = respond("POST /api/plans", c, 0, 401, {})
                /\ UNCHANGED plans
           ELSE IF name = ""
           THEN /\ res' = respond("POST /api/plans", c, 0, 400, {})
                /\ UNCHANGED plans
           ELSE /\ plans' = savePlan(session[c], name)
                /\ res' = respond("POST /api/plans", c, Len(plans) + 1, 200, {})
        /\ UNCHANGED session
        /\ UNCHANGED beyondAccounts

\* GET /api/plans
RouteGetPlans ==
    \E c \in Clients :
        /\ res' = IF ~isAuthenticated(c)
                  THEN respond("GET /api/plans", c, 0, 401, {})
                  ELSE respond("GET /api/plans", c, 0, 200, getUserPlans(session[c]))
        /\ UNCHANGED <<session, plans>>
        /\ UNCHANGED beyondAccounts

\* GET /api/plans/:id
RouteGetPlan ==
    \E c \in Clients, id \in PlanIds :
        /\ LET plan == getPlanById(id)
           IN  res' = IF ~isAuthenticated(c)
                      THEN respond("GET /api/plans/:id", c, id, 401, {})
                      ELSE IF plan = NoPlan
                      THEN respond("GET /api/plans/:id", c, id, 404, {})
                      ELSE IF plan.user_id # session[c]
                      THEN respond("GET /api/plans/:id", c, id, 403, {})
                      ELSE respond("GET /api/plans/:id", c, id, 200, {plan.id})
        /\ UNCHANGED <<session, plans>>
        /\ UNCHANGED beyondAccounts

\* A page with its first block, as the script creates it.
InitBlocks ==
    /\ entry = "page"
    /\ budget = 0
    /\ campaignCycle = 4
    /\ taxonomia = "Tudo"
    /\ praca = "Tudo"
    /\ inventory = <<>>
    /\ pc = "idle"
    /\ inv = <<>>
    /\ idealBudget = 0
    /\ rankedFaces = <<>>
    /\ idx = 1
    /\ remainingBudget = 0
    /\ selectedFaces = <<>>
    /\ totalFacesCount = 0
    /\ walk = <<>>
    /\ optimization = NoResult
    /\ results = <<>>
    /\ block = NoBlock
    /\ planning = NoPlanning
    /\ invoked = {}
    /\ reply = NoResult
    /\ page \in Pages
    /\ heap = <<createBlockState(1)>>
    /\ mediaBlocks = <<1>>
    /\ nextBlockId = 2
    /\ inflight = {}
    /\ sent = 0
    /\ actor = 0
    /\ untouched = {}
    /\ NoAccounts

\* One block, its input fields and its requests.
NextFetch ==
    \/ TypeBudget
    \/ TypeCycle
    \/ SelectTaxonomia
    \/ SelectPraca
    \/ IdealPlanSettles
    \/ PlanningDataSettles
    \/ EfficiencySettles

SpecFetch == InitBlocks /\ [][NextFetch]_vars

\* The same block with its delete button, which resets the only block.
NextReset ==
    \/ NextFetch
    \/ ClickDelete

SpecReset == InitBlocks /\ [][NextReset]_vars

\* The pages with a plan on screen: the manual adjustment field, the
\* player-list button and their requests.
NextAdjust ==
    \/ NextFetch
    \/ TypeQuantity
    \/ ClickGenerateList
    \/ PlayerListSettles

SpecAdjust == InitBlocks /\ [][NextAdjust]_vars

\* The pages with every control of the block list: adding, deleting and
\* resetting blocks while requests are in flight.
NextBlocks ==
    \/ NextFetch
    \/ ClickAddBlock
    \/ ClickDelete
    \/ ClickResetAll

SpecBlocks == InitBlocks /\ [][NextBlocks]_vars

\* The server with its sessions and the plans the users save and read.
InitAccounts ==
    /\ InitBlocks
    /\ page = "planning"

NextAccounts ==
    \/ RouteLogin
    \/ RouteLogout
    \/ RoutePostPlan
    \/ RouteGetPlans
    \/ RouteGetPlan

SpecAccounts == InitAccounts /\ [][NextAccounts]_vars

\* The loaded planning table with its editable fields: the weekly buckets,
\* the discount and the budget.
EditCatalogue == {R2, R4}

InitEdit ==
    /\ InitAuto
    /\ planning.budget \in {1040, 3008}
    /\ \A i \in 1..Len(planning.planningData) :
           planning.planningData[i] \in EditCatalogue

NextEdit ==
    \/ FetchPlanningDataLoaded
    \/ BudgetInput
    \/ EditWeek
    \/ EditNegociacao

SpecEdit == InitEdit /\ [][NextEdit]_vars

\* ------------------------------------------------------------------ claims
\* the results that carry allocation figures (optimizeAllocation's object)
AllocationResults ==
    {i \in 1..Len(results) : "recommendedFaces" \in DOMAIN results[i]}

\* every row of the inventory argument has a parsed price >= 0
PricesNonNegative ==
    \A i \in 1..Len(inventory) :
        parseNumber(inventory[i].unitario_bruto_negociado) >= 0

\* x >= y over scores, +Infinity included
ScoreGeq(x, y) == IsInf(x) \/ (~IsInf(y) /\ RatCmp(x, y) >= 0)
ScoreEq(x, y) == ScoreGeq(x, y) /\ ScoreGeq(y, x)

\* C1: for budget > 0, campaignCycle > 0 and a non-empty item list the
\* returned allocatedBudget + remainingBudget equals budget exactly.
C1_BudgetConservation ==
    \A i \in AllocationResults :
        (budget > 0 /\ campaignCycle > 0 /\ Len(inventory) > 0)
            => Fl(results[i].allocatedBudget + results[i].remainingBudget) = budget

\* C2: with budget > 0 and every price >= 0, after each step of the walk and
\* in the returned result remainingBudget >= 0 and allocatedBudget <= budget,
\* and no item is committed whose cost exceeds the budget remaining then.
C2_NeverOverspend ==
    (budget > 0 /\ PricesNonNegative) =>
        /\ remainingBudget >= 0
        /\ Fl(budget - remainingBudget) <= budget
        /\ \A k \in 1..Len(walk) :
               /\ walk[k].before >= 0
               /\ walk[k].committed => walk[k].faceCost <= walk[k].before
        /\ \A i \in AllocationResults :
               /\ results[i].remainingBudget >= 0
               /\ results[i].allocatedBudget <= budget

\* C2 witness: a walk that skipped an item for its cost and funded a later one
C2_Witness ==
    /\ budget > 0 /\ PricesNonNegative /\ pc = "finish"
    /\ \E j, k \in 1..Len(walk) :
           /\ j < k
           /\ ~walk[j].committed /\ walk[j].faceCost > walk[j].before
           /\ walk[k].committed /\ walk[k].faceCost > 0

\* the committed entries of the walk, in walk order
Committed == SelectSeq(walk, LAMBDA e : e.committed)

ScoresNonIncreasing ==
    \A j, k \in 1..Len(Committed) :
        j < k => ScoreGeq(Committed[j].roi, Committed[k].roi)

\* C3 as stated: SelectedFaces are committed in non-increasing score order,
\* and no lower-scored item is funded while a higher-scored item whose cost
\* was <= the remaining budget when it was reached is skipped (looked at for
\* valid arguments only: budget > 0 and campaignCycle > 0).
C3_Original ==
    /\ ScoresNonIncreasing
    /\ \A j, k \in 1..Len(walk) :
           (/\ budget > 0 /\ campaignCycle > 0
            /\ walk[k].committed /\ ~walk[j].committed
            /\ ScoreGeq(walk[j].roi, walk[k].roi) /\ ~ScoreEq(walk[j].roi, walk[k].roi))
               => ~(walk[j].faceCost <= walk[j].before)

\* C3 amended: SelectedFaces are committed in non-increasing score order, and
\* no lower-scored item is funded while a higher-scored item with a minimum
\* quantity > 0 whose cost was <= the remaining budget when it was reached is
\* skipped.
C3_FundingOrder ==
    /\ ScoresNonIncreasing
    /\ \A j, k \in 1..Len(walk) :
           (/\ walk[k].committed /\ ~walk[j].committed
            /\ ScoreGeq(walk[j].roi, walk[k].roi) /\ ~ScoreEq(walk[j].roi, walk[k].roi))
               => ~(walk[j].faceCost <= walk[j].before /\ walk[j].minQuantity > 0)

\* C3 witness: a finished walk that funded two items of different score and,
\* between them in score, skipped one for its cost
C3_Witness ==
    /\ pc = "finish"
    /\ \E i, j, k \in 1..Len(walk) :
           /\ i < j /\ j < k
           /\ walk[i].committed /\ walk[k].committed /\ ~walk[j].committed
           /\ ~ScoreEq(walk[i].roi, walk[j].roi) /\ ~ScoreEq(walk[j].roi, walk[k].roi)
           /\ walk[j].minQuantity > 0 /\ walk[j].faceCost > walk[j].before

\* the cost and the minimum quantity of a ranked face, as the walk computes them
CostOf(r) == Fl(parseNumber(r.face.unitario_bruto_negociado)
                * parseNumber(r.face.range_minimo))
MinOf(r) == parseNumber(r.face.range_minimo)
Fundable(r, remaining) == CostOf(r) <= remaining /\ MinOf(r) > 0

\* the walk's entry for rank a, and the priority it was committed with
PriorityAt(a) == Cardinality({k \in 1..a : walk[k].committed})

\* C4: items of identical score are considered and funded in input order: the
\* one that came first in the input is ranked (walked) first; if both are
\* committed it has the smaller priority; and if both fit the budget left
\* when the first of them is reached, the one first in the input is funded.
C4_TiesInInputOrder ==
    pc \in {"walk", "finish"} =>
        \A a, b \in 1..Len(rankedFaces) :
            (/\ a # b
             /\ ScoreEq(rankedFaces[a].roi, rankedFaces[b].roi)
             /\ rankedFaces[a].pos < rankedFaces[b].pos)
                => /\ a < b
                   /\ (a <= Len(walk) /\ b <= Len(walk)
                       /\ walk[a].committed /\ walk[b].committed)
                          => PriorityAt(a) < PriorityAt(b)
                   /\ \A t \in {a, b} :
                          (/\ t <= Len(walk)
                           /\ (IF t = a THEN b ELSE a) > t
                           /\ Fundable(rankedFaces[a], walk[t].before)
                           /\ Fundable(rankedFaces[b], walk[t].before))
                              => t = a /\ walk[a].committed

\* C4 witness: two items of identical score, each affordable alone when the
\* first is reached but not both; the first of the input got the funds
C4_Witness ==
    /\ pc = "finish"
    /\ \E a, b \in 1..Len(rankedFaces) :
           /\ ScoreEq(rankedFaces[a].roi, rankedFaces[b].roi)
           /\ rankedFaces[a].pos < rankedFaces[b].pos
           /\ a <= Len(walk)
           /\ Fundable(rankedFaces[a], walk[a].before)
           /\ Fundable(rankedFaces[b], walk[a].before)
           /\ CostOf(rankedFaces[a]) + CostOf(rankedFaces[b]) > walk[a].before
           /\ walk[a].committed
           /\ ~(b <= Len(walk) /\ walk[b].committed)

\* C4 witness, second half: two items of identical score both committed
C4_WitnessBoth ==
    /\ pc = "finish"
    /\ \E a, b \in 1..Len(walk) :
           /\ a # b /\ ScoreEq(walk[a].roi, walk[b].roi)
           /\ walk[a].committed /\ walk[b].committed

\* C5: the same call repeated with identical arguments returns an identical
\* result (same faces in the same order, same numeric fields).
C5_Idempotent ==
    \A i, j \in 1..Len(results) : results[i] = results[j]

\* C5 witness: two calls have returned, each with at least two faces
C5_Witness ==
    /\ Len(results) = 2
    /\ 1 \in AllocationResults
    /\ Len(results[1].recommendedFaces) >= 2
    /\ results[1].remainingBudget # budget

\* the inventory row a selected face was made from
RowOf(f) == CHOOSE i \in 1..Len(inventory) : inventory[i].ID = f.id

\* C6: in every non-error result of optimize, facesCount is the sum of the
\* SelectedFaces' quantities, and every SelectedFace has its item's minimum
\* quantity, which is > 0, and totalCost = unitPrice x quantity.
C6_FacesCount ==
    \A i \in AllocationResults :
        LET faces == results[i].recommendedFaces
        IN  /\ results[i].facesCount = sumQuantity(faces, 0)
            /\ \A k \in 1..Len(faces) :
                   /\ faces[k].quantity > 0
                   /\ faces[k].quantity
                          = parseNumber(inventory[RowOf(faces[k])].range_minimo)
                   /\ faces[k].totalCost = Fl(faces[k].unitPrice * faces[k].quantity)
                   /\ faces[k].priority = k

\* C6 witness: a result with two faces from an inventory that also held a row
\* without minimum quantity
C6_Witness ==
    \E i \in AllocationResults :
        /\ Len(results[i].recommendedFaces) >= 2
        /\ \E k \in 1..Len(inventory) : parseNumber(inventory[k].range_minimo) = 0

\* no row of the inventory argument matches the taxonomy/market filter
NoRowMatches ==
    \A k \in 1..Len(inventory) : ~matchesFilter(inventory[k], taxonomia, praca)

IsBareError(r) == r.status = "error" /\ DOMAIN r = {"status", "message"}

\* C7: with an empty inventory, or no row matching the filter, optimize and
\* buildIdealPlan return a result with status "error" and a message (naming
\* the taxonomy and the market for buildIdealPlan) and no numeric field.
C7_EmptyInventoryError ==
    \A i \in 1..Len(results) :
        /\ (entry \notin PlanEntries /\ Len(inventory) = 0)
               => IsBareError(results[i])
        /\ (entry \in PlanEntries /\ NoRowMatches)
               => /\ IsBareError(results[i])
                  /\ (entry = "getIdealPlan" \/ (budget > 0 /\ campaignCycle > 0))
                         => /\ Len(results[i].message) = 3
                            /\ results[i].message[2] = taxonomia
                            /\ results[i].message[3] = praca

\* C7 witness: getIdealPlan returned for a non-empty inventory of which no row
\* matches the filter, and optimizeAllocation returned for an empty one
C7_Witness ==
    /\ Len(results) >= 1
    /\ \/ entry = "getIdealPlan" /\ Len(inventory) > 0 /\ NoRowMatches /\ budget > 0
       \/ entry = "optimizeAllocation" /\ Len(inventory) = 0 /\ budget > 0

\* C8: an item whose negotiated price is 0, negative or missing never gets an
\* infinite (or NaN) score: it is scored 0 or left out of the ranking (looked
\* at for budget > 0 and campaignCycle > 0).
C8_NoInfiniteScore ==
    \A k \in 1..Len(rankedFaces) :
        (budget > 0 /\ campaignCycle > 0 /\ rankedFaces[k].unitPrice <= 0) =>
            ~IsInf(rankedFaces[k].roi)

\* C9: no numeric field of a returned result is NaN or +/-Infinity (per-face
\* roi, eficiencia, avgUnitCost, efficiency); looked at for budget > 0 and
\* campaignCycle > 0, where it already fails.
C9_NoNaNInfinity ==
    \A i \in 1..Len(results) :
        LET r == results[i]
        IN  (budget > 0 /\ campaignCycle > 0) =>
            /\ "recommendedFaces" \in DOMAIN r =>
                   /\ \A k \in 1..Len(r.recommendedFaces) : ~r.recommendedFaces[k].roi.inf
                   /\ ~IsInf(r.eficiencia)
            /\ "formats" \in DOMAIN r =>
                   /\ ~IsInf(r.efficiency)
                   /\ \A g \in 1..Len(r.formats) :
                          /\ ~IsInf(r.formats[g].avgUnitCost)
                          /\ \A k \in 1..Len(r.formats[g].faces) :
                                 ~r.formats[g].faces[k].roi.inf

\* C10: a call with budget <= 0 or campaignCycle <= 0 is answered with a
\* structured error at once: nothing is scored or committed and no allocation
\* figure is returned.
C10_InvalidInputRejected ==
    (budget <= 0 \/ campaignCycle <= 0) =>
        /\ rankedFaces = <<>> /\ walk = <<>>
        /\ \A i \in 1..Len(results) : IsBareError(results[i])

\* the HTTP routes do reject such a request before any scoring
RoutesValidate ==
    (entry \in {"POST /api/optimize-budget", "POST /api/get-ideal-plan"}
     /\ (budget <= 0 \/ campaignCycle <= 0)) =>
        /\ rankedFaces = <<>> /\ walk = <<>>
        /\ \A i \in 1..Len(results) : IsBareError(results[i])

\* C11: once remainingBudget is below 1000 the walk commits nothing further:
\* every committed item was committed when the budget remaining before its
\* commit was >= 1000, and no item is looked at after the remaining budget
\* fell below 1000 (looked at for budget > 0 and campaignCycle > 0).
C11_StopBelowThreshold ==
    (budget > 0 /\ campaignCycle > 0) =>
        /\ \A k \in 1..Len(walk) :
               walk[k].committed => walk[k].before >= StopThreshold
        /\ \A k \in 2..Len(walk) : walk[k].before >= StopThreshold
        /\ (pc = "walk" /\ Len(walk) > 0) => remainingBudget >= StopThreshold

\* the part of C11 the loop does keep: past its first iteration the walk only
\* continues while the remaining budget is >= 1000
StopsAfterFirstIteration ==
    /\ \A k \in 2..Len(walk) : walk[k].before >= StopThreshold
    /\ (pc = "walk" /\ Len(walk) > 0) => remainingBudget >= StopThreshold

\* Math.ceil(0.75 n): the least m with m >= 0.75 n
TopCount(n) == CHOOSE m \in 0..n : 4 * m >= 3 * n /\ 4 * (m - 1) < 3 * n

\* the sum of negotiated price x minimum quantity over the first m entries of
\* a ranking, added up in ranking order
RECURSIVE CostOfTop(_, _)
CostOfTop(ranked, m) ==
    IF m = 0 THEN 0 ELSE Fl(CostOfTop(ranked, m - 1) + CostOf(ranked[m]))

\* C12: for a fixed campaignCycle and item list, idealBudget is the same for
\* every requested budget: it is the sum of negotiated price x minimum
\* quantity over the first ceil(0.75 n) items of the score ranking, whatever
\* the budget was and whichever items the walk funded.
C12_IdealBudgetIndependent ==
    \A i \in AllocationResults :
        results[i].idealBudget
            = CostOfTop(prioritizeFaces(inv, campaignCycle), TopCount(Len(inv)))

\* C12 witness: a result for four rows, of which the ranking's last one is
\* left out of the ideal budget, and where the walk funded some but not all
\* of the rows the ideal budget counts
C12_Witness ==
    \E i \in AllocationResults :
        /\ Len(inv) = 4 /\ budget > 0 /\ campaignCycle > 0
        /\ CostOf(rankedFaces[4]) > 0
        /\ results[i].idealBudget > 0
        /\ Len(results[i].recommendedFaces) \in 1..2
        /\ results[i].allocatedBudget # results[i].idealBudget

\* the Number products idealBudget * 0.5 and idealBudget * 1.5, doubled
TwiceHalfOf(ideal) == ideal
TwiceOneAndAHalfOf(ideal) == Fl(3 * ideal)

\* C13: the status of a non-error optimize result depends on budget and
\* idealBudget only: "insufficient" exactly when budget < 0.5 x idealBudget,
\* "excessive" exactly when budget > 1.5 x idealBudget, "sufficient"
\* otherwise, both boundary values included; exactly one of the three applies.
C13_StatusByBudget ==
    \A i \in AllocationResults :
        LET r == results[i]
            below == 2 * budget < TwiceHalfOf(r.idealBudget)
            above == 2 * budget > TwiceOneAndAHalfOf(r.idealBudget)
        IN  /\ r.status \in {"insufficient", "excessive", "sufficient"}
            /\ r.status = "insufficient" <=> below
            /\ r.status = "excessive" <=> above
            /\ r.status = "sufficient" <=> (~below /\ ~above)
            /\ ~(below /\ above)

\* C13 witness: a result whose budget is exactly half its idealBudget > 0
C13_Witness ==
    \E i \in AllocationResults :
        /\ budget > 0 /\ campaignCycle > 0
        /\ 2 * budget = results[i].idealBudget
        /\ results[i].status = "sufficient"

\* C13 witness, upper boundary: the budget is exactly 1.5 x idealBudget > 0
C13_WitnessUpper ==
    \E i \in AllocationResults :
        /\ budget > 0 /\ campaignCycle > 0
        /\ 2 * budget = 3 * results[i].idealBudget
        /\ results[i].status = "sufficient"

\* C13, the three statuses all occur for budget > 0
C13_WitnessAll ==
    /\ budget = 1040
    /\ \E i \in AllocationResults : results[i].status = "insufficient"

\* C14: whenever optimizeAllocation returns a non-error result in which at
\* least one face was committed, exposicao_estimada > 0 and eficiencia > 0,
\* with eficiencia = exposicao_estimada / allocatedBudget; eficiencia is 0
\* only when allocatedBudget is 0 (looked at for budget > 0 and
\* campaignCycle > 0).
C14_PositiveEfficiency ==
    \A i \in AllocationResults :
        LET r == results[i]
        IN  (budget > 0 /\ campaignCycle > 0) =>
            /\ Len(r.recommendedFaces) >= 1 =>
                   /\ r.exposicao_estimada > 0
                   /\ ~IsInf(r.eficiencia) /\ r.eficiencia.n > 0
                   /\ r.eficiencia = Rat(r.exposicao_estimada, r.allocatedBudget)
            /\ r.eficiencia = Rat(0, 1) => r.allocatedBudget = 0

\* what does hold of C14 when every committed face has a price > 0
EfficiencyPositiveForPricedFaces ==
    \A i \in AllocationResults :
        LET r == results[i]
        IN  (/\ budget > 0 /\ campaignCycle > 0
             /\ Len(r.recommendedFaces) >= 1
             /\ \A k \in 1..Len(r.recommendedFaces) : r.recommendedFaces[k].unitPrice > 0)
                => /\ r.exposicao_estimada > 0
                   /\ r.allocatedBudget > 0
                   /\ r.eficiencia = Rat(r.exposicao_estimada, r.allocatedBudget)
                   /\ r.eficiencia.n > 0

\* the results that are ideal plans (getIdealPlan's success object)
PlanResults == {i \in 1..Len(results) : "formats" \in DOMAIN results[i]}

\* exact sums over the format groups of a plan
RECURSIVE GroupCostSum(_)
GroupCostSum(formats) ==
    IF formats = <<>> THEN 0 ELSE Head(formats).totalCost + GroupCostSum(Tail(formats))

RECURSIVE GroupQtySum(_)
GroupQtySum(formats) ==
    IF formats = <<>> THEN 0
    ELSE Head(formats).recommendedQty + GroupQtySum(Tail(formats))

RECURSIVE GroupFaceCount(_)
GroupFaceCount(formats) ==
    IF formats = <<>> THEN 0 ELSE Len(Head(formats).faces) + GroupFaceCount(Tail(formats))

RECURSIVE GroupCostMagnitude(_)
GroupCostMagnitude(formats) ==
    IF formats = <<>> THEN 0
    ELSE Abs(Head(formats).totalCost) + GroupCostMagnitude(Tail(formats))

\* the spacing of Numbers at the magnitude of x
Ulp(x) == IF BitLen(Abs(x)) > Prec THEN Pow2(BitLen(Abs(x)) - Prec) ELSE 1

\* every face of the allocation the plan was built from (optimization) is in
\* exactly one group, under its format name, and the plan's totals are the
\* allocation's
GroupsPartitionFaces(plan) ==
    /\ plan.totalCost = optimization.allocatedBudget
    /\ plan.totalFaces = optimization.facesCount
    /\ \A g, h \in 1..Len(plan.formats) :
           g # h => plan.formats[g].name # plan.formats[h].name
    /\ \A g \in 1..Len(plan.formats) :
           /\ Len(plan.formats[g].faces) >= 1
           /\ \A k \in 1..Len(plan.formats[g].faces) :
                  formatNameOf(plan.formats[g].faces[k]) = plan.formats[g].name
    /\ GroupFaceCount(plan.formats) = Len(optimization.recommendedFaces)
    /\ \A k \in 1..Len(optimization.recommendedFaces) :
           \E g \in 1..Len(plan.formats) :
               \E j \in 1..Len(plan.formats[g].faces) :
                   plan.formats[g].faces[j] = optimization.recommendedFaces[k]

\* C15 as stated: in every successful IdealPlan the format groups partition
\* the SelectedFaces: the sum of the groups' totalCost equals the plan's
\* totalCost (allocatedBudget), the sum of recommendedQty equals facesCount,
\* and every group has recommendedQty > 0, so avgUnitCost has no zero divisor
\* (looked at for budget > 0, campaignCycle > 0 and prices >= 0).
C15_Original ==
    \A i \in PlanResults :
        LET plan == results[i]
        IN  (budget > 0 /\ campaignCycle > 0 /\ PricesNonNegative) =>
            /\ GroupsPartitionFaces(plan)
            /\ GroupCostSum(plan.formats) = plan.totalCost
            /\ GroupQtySum(plan.formats) = plan.totalFaces
            /\ \A g \in 1..Len(plan.formats) :
                   /\ plan.formats[g].recommendedQty > 0
                   /\ ~IsInf(plan.formats[g].avgUnitCost)

\* C15 amended: the format groups partition the SelectedFaces; the sum of the
\* groups' totalCost equals the plan's totalCost up to the rounding of the
\* Number additions and subtractions that produced them (half a unit in the
\* last place for each of the at most 2 k + 1 of them, k the number of
\* faces); the sum of recommendedQty equals facesCount; every group has
\* recommendedQty > 0, so avgUnitCost has no zero divisor.
C15_GroupsPartition ==
    \A i \in PlanResults :
        LET plan == results[i]
            k == GroupFaceCount(plan.formats)
            magnitude == Abs(budget) + GroupCostMagnitude(plan.formats)
        IN  /\ GroupsPartitionFaces(plan)
            /\ 2 * Abs(GroupCostSum(plan.formats) - plan.totalCost)
                   <= (2 * k + 1) * Ulp(magnitude)
            /\ GroupQtySum(plan.formats) = plan.totalFaces
            /\ \A g \in 1..Len(plan.formats) :
                   /\ plan.formats[g].recommendedQty > 0
                   /\ ~IsInf(plan.formats[g].avgUnitCost)

\* C15 witness: a plan of two groups, one of them with two faces, whose
\* totalCost is not the exact sum of the costs
C15_Witness ==
    \E i \in PlanResults :
        /\ budget > 0 /\ campaignCycle > 0 /\ PricesNonNegative
        /\ Len(results[i].formats) = 2
        /\ \E g \in 1..2 : Len(results[i].formats[g].faces) = 2
        /\ GroupCostSum(results[i].formats) # results[i].totalCost

\* ------------------------------------------- claims on the comparison
\* the block holds a successful ideal plan and its efficiency
PlanLoaded == block.idealPlan # NoResult /\ block.efficiencyMetrics # NoResult

\* the manual plan has the ideal recommended quantity for every format
ManualIsIdeal ==
    block.manualPlan.formats
        = [k \in 1..Len(block.idealPlan.formats) |->
              [name |-> block.idealPlan.formats[k].name,
               adjustedQty |-> block.idealPlan.formats[k].recommendedQty]]

FactorOf(face) == getExposureFactor(face.formato, face.digital, face.estatico)

\* every face of the plan has a price > 0
AllFacesPriced(plan) ==
    \A g \in 1..Len(plan.formats) :
        \A k \in 1..Len(plan.formats[g].faces) : plan.formats[g].faces[k].unitPrice > 0

\* some group of the plan holds faces of different exposure factors
MixedGroup(plan) ==
    \E g \in 1..Len(plan.formats) :
        \E j, k \in 1..Len(plan.formats[g].faces) :
            FactorOf(plan.formats[g].faces[j]) # FactorOf(plan.formats[g].faces[k])

\* approximately 1.0: 0.95 <= x <= 1.1 (the lower bound is that of
\* "efficient"; the upper one leaves room for the rounding of allocatedBudget
\* at Prec bits)
AboutOne(x) == ~IsInf(x) /\ RatCmp(x, Rat(95, 100)) >= 0 /\ RatCmp(x, Rat(11, 10)) <= 0

\* C16: for every successful IdealPlan (of one face or more, each with a
\* price > 0), a manual
\* plan whose adjustedQuantity equals the ideal recommendedQty for every
\* format gives efficiencyRatio of about 1.0 and status "efficient", also
\* when a format group holds faces of different exposure factors.
C16_IdealQuantitiesEfficient ==
    (/\ PlanLoaded /\ ManualIsIdeal /\ AllFacesPriced(block.idealPlan)
     /\ Len(block.idealPlan.formats) >= 1) =>
        /\ block.efficiencyMetrics.status = "efficient"
        /\ AboutOne(block.efficiencyMetrics.efficiencyRatio)

\* what does hold of C16: the same, for plans that funded at least one face
\* and have no mixed group
IdealQuantitiesEfficientWhenUniform ==
    (/\ PlanLoaded /\ ManualIsIdeal /\ AllFacesPriced(block.idealPlan)
     /\ Len(block.idealPlan.formats) >= 1
     /\ ~MixedGroup(block.idealPlan)) =>
        /\ block.efficiencyMetrics.status = "efficient"
        /\ AboutOne(block.efficiencyMetrics.efficiencyRatio)

\* some format of the manual plan is above its ideal quantity, none below
OverAllocated ==
    /\ \A k \in 1..Len(block.manualPlan.formats) :
           block.manualPlan.formats[k].adjustedQty
               >= block.idealPlan.formats[k].recommendedQty
    /\ \E k \in 1..Len(block.manualPlan.formats) :
           block.manualPlan.formats[k].adjustedQty
               > block.idealPlan.formats[k].recommendedQty

\* quantity x average unit cost, summed over the manual formats, unclamped
RECURSIVE UnclampedCost(_, _)
UnclampedCost(manualFormats, idealFormats) ==
    IF manualFormats = <<>> THEN Rat(0, 1)
    ELSE RatAdd(RatMul(Head(idealFormats).avgUnitCost, Head(manualFormats).adjustedQty, 1),
                UnclampedCost(Tail(manualFormats), Tail(idealFormats)))

\* C17: a manual plan may set a format's adjustedQuantity above the ideal
\* recommended quantity; calculateEfficiency accepts it without error or
\* clamping, and such an over-allocated plan is scored "inefficient".
C17_OverAllocationInefficient ==
    (PlanLoaded /\ AllFacesPriced(block.idealPlan) /\ OverAllocated) =>
        /\ block.efficiencyMetrics.status # "error"
        /\ block.efficiencyMetrics.manualTotalCost
               = UnclampedCost(block.manualPlan.formats, block.idealPlan.formats)
        /\ block.efficiencyMetrics.status = "inefficient"

\* the part of C17 that holds: no error and no clamping
OverAllocationAccepted ==
    (PlanLoaded /\ OverAllocated) =>
        /\ block.efficiencyMetrics.status # "error"
        /\ block.efficiencyMetrics.manualTotalCost
               = UnclampedCost(block.manualPlan.formats, block.idealPlan.formats)

\* C18: calculateEfficiency never divides by zero: manualEfficiency is 0
\* whenever manualTotalCost is 0 and efficiencyRatio is 0 whenever
\* idealEfficiency is 0; a manual plan with quantity 0 for every format gives
\* manualTotalCost 0, manualEfficiency 0, efficiencyRatio 0 and status
\* "inefficient", never an error result.
C18_NoDivisionByZero ==
    PlanLoaded =>
        LET m == block.efficiencyMetrics
        IN  /\ m.status \in {"efficient", "acceptable", "inefficient"}
            /\ ~IsInf(m.manualEfficiency) /\ ~IsInf(m.idealEfficiency)
            /\ ~IsInf(m.efficiencyRatio)
            /\ m.manualTotalCost.n = 0 => m.manualEfficiency = Rat(0, 1)
            /\ m.idealEfficiency.n = 0 => m.efficiencyRatio = Rat(0, 1)
            /\ (\A k \in 1..Len(block.manualPlan.formats) :
                    block.manualPlan.formats[k].adjustedQty = 0)
                   => /\ m.manualTotalCost = Rat(0, 1)
                      /\ m.manualTotalExposure = 0
                      /\ m.manualEfficiency = Rat(0, 1)
                      /\ m.efficiencyRatio = Rat(0, 1)
                      /\ m.percentageOfIdeal = 0
                      /\ m.status = "inefficient"

\* C18 witness: every quantity of a plan of two formats with an efficiency
\* > 0 was set to 0
C18_Witness ==
    /\ PlanLoaded
    /\ Len(block.manualPlan.formats) >= 2
    /\ \A k \in 1..Len(block.manualPlan.formats) :
           block.manualPlan.formats[k].adjustedQty = 0
    /\ block.idealPlan.efficiency.n > 0
    /\ block.efficiencyMetrics.status = "inefficient"

\* C18 witness, second case: the ideal plan cost nothing, so idealEfficiency
\* is 0, while the manual quantities are not 0
C18_WitnessIdealZero ==
    /\ PlanLoaded
    /\ block.efficiencyMetrics.idealEfficiency.n = 0
    /\ \E k \in 1..Len(block.manualPlan.formats) :
           block.manualPlan.formats[k].adjustedQty > 0

\* ------------------------------------------- claims on the player list
\* the rows of the list that came from the ideal group of that name
RowsOf(list, name) == SelectSeq(list, LAMBDA row : formatNameOf(row) = name)

RECURSIVE RowQtySum(_)
RowQtySum(rows) ==
    IF rows = <<>> THEN 0 ELSE Head(rows).quantity + RowQtySum(Tail(rows))

RECURSIVE FaceQtySum(_)
FaceQtySum(faces) ==
    IF faces = <<>> THEN 0 ELSE Head(faces).quantity + FaceQtySum(Tail(faces))

\* C19: in generatePlayerList, for every manual format with a matching ideal
\* group, the group's faces are consumed in their stored priority order; each
\* emitted row has a quantity > 0 and <= its face's committed quantity; the
\* emitted quantities of the format sum to the manual target when the group
\* can reach it and never exceed it; only the last face consumed for a format
\* may get less than its full committed quantity.
C19_PlayerListGreedy ==
    (PlanLoaded /\ block.playerList # NoResult) =>
        \A f \in 1..Len(block.manualPlan.formats) :
            LET name == block.manualPlan.formats[f].name
                target == block.manualPlan.formats[f].adjustedQty
                g == findFormat(block.idealPlan.formats, name)
                faces == block.idealPlan.formats[g].faces
                rows == RowsOf(block.playerList.list, name)
            IN  g # 0 =>
                /\ \A j, k \in 1..Len(faces) :
                       j < k => faces[j].priority < faces[k].priority
                /\ Len(rows) <= Len(faces)
                /\ \A j \in 1..Len(rows) :
                       /\ rows[j].priority = faces[j].priority
                       /\ rows[j].quantity > 0
                       /\ rows[j].quantity <= faces[j].quantity
                       /\ j < Len(rows) => rows[j].quantity = faces[j].quantity
                       /\ rows[j].negotiatedQuantity = target
                /\ RowQtySum(rows) <= target
                /\ target <= FaceQtySum(faces) => RowQtySum(rows) = target
                /\ target > FaceQtySum(faces) => RowQtySum(rows) = FaceQtySum(faces)

\* C19 witness: a format whose target was reached with two rows, the second
\* face getting less than its committed quantity
C19_Witness ==
    /\ PlanLoaded /\ block.playerList # NoResult
    /\ \E f \in 1..Len(block.manualPlan.formats) :
           LET name == block.manualPlan.formats[f].name
               g == findFormat(block.idealPlan.formats, name)
               rows == RowsOf(block.playerList.list, name)
           IN  /\ g # 0 /\ Len(rows) = 2
               /\ rows[2].quantity < block.idealPlan.formats[g].faces[2].quantity
               /\ RowQtySum(rows) = block.manualPlan.formats[f].adjustedQty

\* C19 witness, second case: a target above what the group's faces hold
C19_WitnessUnreachable ==
    /\ PlanLoaded /\ block.playerList # NoResult
    /\ \E f \in 1..Len(block.manualPlan.formats) :
           LET name == block.manualPlan.formats[f].name
               g == findFormat(block.idealPlan.formats, name)
           IN  /\ g # 0
               /\ block.manualPlan.formats[f].adjustedQty
                      > FaceQtySum(block.idealPlan.formats[g].faces)


\* ---------------------------------------------------------------- C20
tableCostOf(rows) ==
    LET RECURSIVE sum(_)
        sum(k) == IF k = 0 THEN 0
                  ELSE sum(k - 1) + rows[k].unitario_bruto_tabela * rows[k].s1_edit
    IN  sum(Len(rows))

\* C20: once the faces are allocated, the sum over the rows of unit price
\* times allocated faces is at most the budget of the block.
C20_AllocationFitsBudget ==
    planning.planningRows # <<>> =>
        tableCostOf(planning.planningRows) <= planning.budget


\* What the allocation does guarantee: the overshoot stays within the
\* rounding of the share, the row budget and the quotient.
AllocationFitsUpToRounding ==
    planning.planningRows # <<>> =>
        Pow2(Prec) * tableCostOf(planning.planningRows)
            <= (Pow2(Prec) + 4) * planning.budget


\* ---------------------------------------------------------------- C21
Allocated == planning.planningRows # <<>>

maxCostOf(rows) ==
    LET RECURSIVE sum(_)
        sum(k) == IF k = 0 THEN 0
                  ELSE sum(k - 1) + rows[k].unitario_bruto_tabela * rows[k].totalFaces
    IN  sum(Len(rows))

\* the four weekly buckets of every row hold one count within 0..totalFaces
UniformWithinCapacity(rows) ==
    \A i \in 1..Len(rows) :
        /\ rows[i].s1_edit = rows[i].s2_edit
        /\ rows[i].s2_edit = rows[i].s3_edit
        /\ rows[i].s3_edit = rows[i].s4_edit
        /\ rows[i].s1_edit \in 0..rows[i].totalFaces

AtFullCapacity(rows) ==
    \A i \in 1..Len(rows) : rows[i].s1_edit = rows[i].totalFaces

\* C21 as stated: once the faces are allocated every row has one count in
\* its four weekly buckets, between 0 and totalFaces, and whenever the total
\* max cost is at most the budget every row is at its totalFaces.
C21_Original ==
    Allocated =>
        /\ UniformWithinCapacity(planning.planningRows)
        /\ (maxCostOf(planning.planningRows) <= planning.budget
               => AtFullCapacity(planning.planningRows))

\* C21 amended: the rows are at full capacity when the total max cost is
\* positive and at most the budget; with no cost data or no budget every
\* row is at 0.
C21_UniformWithinCapacity ==
    Allocated =>
        LET rows == planning.planningRows
        IN  /\ UniformWithinCapacity(rows)
            /\ (0 < maxCostOf(rows) /\ maxCostOf(rows) <= planning.budget
                   => AtFullCapacity(rows))
            /\ (maxCostOf(rows) <= 0 \/ planning.budget <= 0
                   => \A i \in 1..Len(rows) : rows[i].s1_edit = 0)

\* C21 witness: a limited budget leaves a row strictly between 0 and its
\* totalFaces
C21_Witness ==
    /\ Allocated
    /\ maxCostOf(planning.planningRows) > planning.budget
    /\ \E i \in 1..Len(planning.planningRows) :
           /\ planning.planningRows[i].s1_edit > 0
           /\ planning.planningRows[i].s1_edit < planning.planningRows[i].totalFaces

\* C21 witness, full capacity: two rows funded to their totalFaces
C21_WitnessFull ==
    /\ Allocated
    /\ Len(planning.planningRows) >= 2
    /\ 0 < maxCostOf(planning.planningRows)
    /\ maxCostOf(planning.planningRows) <= planning.budget
    /\ AtFullCapacity(planning.planningRows)

\* C21 witness, no cost data: rows with faces and no price stay at 0
C21_WitnessNoCost ==
    /\ Allocated
    /\ planning.budget > 0
    /\ maxCostOf(planning.planningRows) = 0
    /\ \E i \in 1..Len(planning.planningRows) :
           planning.planningRows[i].totalFaces > 0


\* ---------------------------------------------------------------- C22
NoFaces(row) ==
    row.s1_edit = 0 /\ row.s2_edit = 0 /\ row.s3_edit = 0 /\ row.s4_edit = 0

\* C22: once the faces are allocated, every row whose unit price is 0 or
\* whose weight is 0 has 0 faces in its four weekly buckets.
C22_ZeroRowsGetNothing ==
    Allocated =>
        \A i \in 1..Len(planning.planningRows) :
            LET row == planning.planningRows[i]
            IN  row.unitario_bruto_tabela = 0 \/ row.pesos = 0 => NoFaces(row)

\* What the allocation does guarantee: under a limited budget a row
\* without a price gets nothing.
ZeroPriceGetsNothingWhenLimited ==
    Allocated /\ planning.budget < maxCostOf(planning.planningRows) =>
        \A i \in 1..Len(planning.planningRows) :
            planning.planningRows[i].unitario_bruto_tabela = 0
                => NoFaces(planning.planningRows[i])


\* ---------------------------------------------------------------- C23
\* C23: recalculating the rows of a table that was just recalculated
\* changes none of facesUsadas, totalLinha, custoFace, ttNeg, index and
\* budgetIdeal.
C23_RecalculateIdempotent ==
    Allocated =>
        recalculatePlanningRows(planning.budget, planning.planningRows)
            = planning.planningRows

\* C23 witness: a table with a discount that rounds and weekly buckets
\* that differ
C23_Witness ==
    /\ Allocated
    /\ \E i \in 1..Len(planning.planningRows) :
           LET row == planning.planningRows[i]
           IN  /\ row.negociacao_edit = 125
               /\ row.unitario_bruto_tabela = 15
               /\ row.custoFace = 1313
               /\ row.s1_edit # row.s2_edit
               /\ row.facesUsadas > 0


\* ---------------------------------------------------------------- C24
\* budget * (totalLinha / totalTabelaValue), rounded to a whole number
budgetIdealOf(blockBudget, totalLinha, totalTabelaValue) ==
    IF totalTabelaValue > 0
    THEN round(FlRat(RatMul(FlRat(Rat(totalLinha, totalTabelaValue)), blockBudget, 1)))
    ELSE 0

BudgetIdealByTableCost ==
    Allocated =>
        LET rows == planning.planningRows
            total == totalTabelaValueOf(rows, 0)
        IN  \A i \in 1..Len(rows) :
                /\ rows[i].totalLinha
                       = Fl(rows[i].unitario_bruto_tabela
                            * max4(rows[i].s1_edit, rows[i].s2_edit,
                                   rows[i].s3_edit, rows[i].s4_edit))
                /\ rows[i].budgetIdeal
                       = budgetIdealOf(planning.budget, rows[i].totalLinha, total)

\* a step that changes the discount of some row and nothing else that is
\* typed
DiscountOnly ==
    /\ Allocated
    /\ planning'.budget = planning.budget
    /\ Len(planning'.planningRows) = Len(planning.planningRows)
    /\ \A i \in 1..Len(planning.planningRows) :
           /\ planning'.planningRows[i].s1_edit = planning.planningRows[i].s1_edit
           /\ planning'.planningRows[i].s2_edit = planning.planningRows[i].s2_edit
           /\ planning'.planningRows[i].s3_edit = planning.planningRows[i].s3_edit
           /\ planning'.planningRows[i].s4_edit = planning.planningRows[i].s4_edit
    /\ \E i \in 1..Len(planning.planningRows) :
           planning'.planningRows[i].negociacao_edit
               # planning.planningRows[i].negociacao_edit

TableCostsUnchanged ==
    \A i \in 1..Len(planning.planningRows) :
        /\ planning'.planningRows[i].totalLinha = planning.planningRows[i].totalLinha
        /\ planning'.planningRows[i].budgetIdeal = planning.planningRows[i].budgetIdeal

\* C24: the budgetIdeal of every row is the rounded share of the budget
\* given by its totalLinha among the totalLinha of all rows (0 when they
\* sum to 0), and a change of a discount alone leaves every totalLinha and
\* every budgetIdeal as it was.
C24_BudgetIdealByTableCost ==
    /\ []BudgetIdealByTableCost
    /\ [][DiscountOnly => TableCostsUnchanged]_vars

\* C24 witness: two rows share the budget, one of them with a discount
\* that lowers its negotiated total
C24_Witness ==
    /\ Allocated
    /\ Len(planning.planningRows) = 2
    /\ planning.planningRows[1].budgetIdeal > 0
    /\ planning.planningRows[2].budgetIdeal > 0
    /\ planning.planningRows[1].budgetIdeal # planning.planningRows[2].budgetIdeal
    /\ \E i \in 1..2 :
           /\ planning.planningRows[i].negociacao_edit > 0
           /\ planning.planningRows[i].ttNeg < 100 * planning.planningRows[i].totalLinha

\* C24 witness, no table cost: every row is at 0 faces and budgetIdeal 0
C24_WitnessNoCost ==
    /\ Allocated
    /\ planning.budget > 0
    /\ totalTabelaValueOf(planning.planningRows, 0) = 0
    /\ \A i \in 1..Len(planning.planningRows) :
           planning.planningRows[i].budgetIdeal = 0


\* ---------------------------------------------------------------- C25
ErrorsAreNotGrouped ==
    \A i \in 1..Len(results) :
        results[i].status = "error" => "formats" \notin DOMAIN results[i]

\* C25: an error of the allocator is returned by getIdealPlan without
\* format groups, and neither calculateEfficiency nor generatePlayerList
\* ever runs with an ideal plan that is an error or missing.
C25_ErrorStopsPipeline ==
    /\ ErrorsAreNotGrouped
    /\ \A call \in invoked : call.idealPlan \notin {"error", "none"}

\* What the callers do guarantee: the page never hands an error or a
\* missing plan on, and no route runs the service without a plan.
PageStopsOnError ==
    /\ ErrorsAreNotGrouped
    /\ block.idealPlan.status # "error"
    /\ block.efficiencyMetrics # NoResult => block.idealPlan # NoResult
    /\ \A call \in invoked : call.idealPlan # "none"


\* ---------------------------------------------------------------- C26
Settled(ref) == \A req \in inflight : req.ref # ref

\* the plan data a block holds: idealPlan or planningData
planDataOf(b) == IF page = "recommendation" THEN b.idealPlan ELSE b.planningData

\* C26: once the requests of a block have settled, the plan data it holds
\* is what the server answers for the inputs the block has now.
C26_LatestInputsWin ==
    \A ref \in Listed :
        Settled(ref) /\ planDataOf(heap[ref]) # NoResult =>
            planDataOf(heap[ref]) = answerFor(inputsOf(heap[ref]))

\* What the pages do guarantee: an answer that settles while the block
\* still has the inputs of its request is kept.
FreshAnswerIsKept ==
    [][\A req \in inflight \ inflight' :
          /\ req.kind \in {"get-ideal-plan", "get-planning-data"}
          /\ req.body = inputsOf(heap[req.ref])
          /\ answerFor(req.body).status # "error"
          => planDataOf(heap'[req.ref]) = answerFor(req.body)]_vars


\* ---------------------------------------------------------------- C27
ProjectionSettled(ref) ==
    \A req \in inflight :
        req.ref = ref => req.kind \notin {"calculate-efficiency", "get-player-list"}

\* C27: once the efficiency and player-list requests of a block have
\* settled, its metrics and its list are those of the manual plan and the
\* ideal plan the block holds.
C27_MetricsAreProjection ==
    \A ref \in Listed :
        /\ page = "recommendation"
        /\ ProjectionSettled(ref)
        /\ heap[ref].idealPlan # NoResult
        /\ heap[ref].manualPlan # NoResult
        =>  LET b == heap[ref]
            IN  /\ b.efficiencyMetrics # NoResult =>
                       b.efficiencyMetrics
                           = projectionOf("efficiency", b.manualPlan, b.idealPlan)
                /\ b.playerList # NoResult =>
                       b.playerList
                           = projectionOf("playerList", b.manualPlan, b.idealPlan)

\* What the page does guarantee: metrics that settle while the block still
\* holds the plans of their request are those of the block.
FreshMetricsAreKept ==
    [][\A req \in inflight \ inflight' :
          /\ req.kind = "calculate-efficiency"
          /\ req.manualPlan = heap[req.ref].manualPlan
          /\ req.idealPlan = heap[req.ref].idealPlan
          => heap'[req.ref].efficiencyMetrics
                 = projectionOf("efficiency", heap'[req.ref].manualPlan,
                                heap'[req.ref].idealPlan)]_vars


\* ---------------------------------------------------------------- C28
\* the blocks other than the one a step acts on keep every field
OthersKeepTheirFields ==
    \A ref \in Listed \cap Listed' :
        ref # actor' => heap'[ref] = heap[ref]

\* C28: a step on one block (an input, a request, a response that arrives
\* late, a reset, a removal) leaves the inputs, the plan data, the results
\* and the active flag of every other block as they were.
C28_BlocksAreIsolated == [][OthersKeepTheirFields]_vars

\* On the planning page every response is written to the block object taken
\* before the request, so no other block changes.
PlanningBlocksAreIsolated ==
    [][page = "planning" => OthersKeepTheirFields]_vars


\* ---------------------------------------------------------------- C29
\* C29: a block that was reset and got no input since is inactive and holds
\* no input and no plan data, whatever request of it settles afterwards.
C29_ResetBlockStaysEmpty ==
    \A ref \in untouched :
        /\ ~heap[ref].active
        /\ heap[ref] = resetBlock(heap[ref])

\* The reset itself empties the block; only a later response fills it again.
ResetEmptiesTheBlock ==
    [][\A ref \in untouched' \ untouched :
          /\ ~heap'[ref].active
          /\ heap'[ref] = resetBlock(heap'[ref])]_vars


\* ---------------------------------------------------------------- C30
PlanRoutes == {"GET /api/plans", "GET /api/plans/:id"}
ownerOf(id) == getPlanById(id).user_id

\* what a plans route may answer to a client whose session holds this user
AnswerFitsSession(answer, user) ==
    /\ \A id \in answer.plans : user # 0 /\ ownerOf(id) = user
    /\ user = 0 => answer.code = 401
    /\ user # 0 /\ answer.route = "GET /api/plans" =>
           /\ answer.code = 200
           /\ answer.plans = {id \in PlanIds : ownerOf(id) = user}
    /\ user # 0 /\ answer.route = "GET /api/plans/:id" =>
           /\ ownerOf(answer.id) = 0 => answer.code = 404
           /\ ownerOf(answer.id) \notin {0, user} => answer.code = 403
           /\ ownerOf(answer.id) = user =>
                  answer.code = 200 /\ answer.plans = {answer.id}

\* C30: a saved plan goes only to a session whose user owns it: another
\* user's plan is answered 403, a missing one 404, the list holds the plans
\* of the session's user only, and without a user the answer is 401 and
\* carries no plan.
C30_PlansOnlyForTheirOwner ==
    [][res' # res /\ res'.route \in PlanRoutes
           => AnswerFitsSession(res', session[res'.client])]_vars

\* another user's plan was asked for and refused
C30_Witness ==
    /\ res.route = "GET /api/plans/:id"
    /\ res.code = 403
    /\ ownerOf(res.id) \notin {0, session[res.client]}

\* a list with a plan was answered while another user has plans too
C30_WitnessList ==
    /\ res.route = "GET /api/plans"
    /\ res.plans # {}
    /\ \E k \in 1..Len(plans) : plans[k].id \notin res.plans

=============================================================================
